---- MODULE Spec2Model ----
(***************************************************************************)
(* helios-dns: the scan-and-publish pipeline (server/record_updater.go),   *)
(* the record store and the DNS read path (server/server.go as of          *)
(* unnamed/part_004) and the refresh scheduler (Serve).                    *)
(*                                                                         *)
(* Goroutines are processes with a program counter.  A Go select is        *)
(* modelled as the runtime executes it: a goroutine ENTERING a select      *)
(* takes any one of the cases that are ready at that moment (uniform       *)
(* pseudo-random choice); if none is ready it PARKS on all of them and is  *)
(* claimed by the first event that fires (close of ctx.Done(), close of    *)
(* the channel, a partner arriving on the channel).  A parked goroutine    *)
(* that has been claimed by one event cannot be taken by another.          *)
(***************************************************************************)
EXTENDS Integers, Sequences, FiniteSets, TLC

\* ------------------------------------------------------------------ bounds
\* How many times the scheduler may call recordUpdater in one behaviour.
MaxCycles == 2

\* The time up to which the passing of time is followed, in milliseconds.
MaxNow == 4000

\* ------------------------------------------------------------ configuration
\* A net.IP is a byte slice of length 4 or 16; both forms of one IPv4 address
\* print as the same dotted quad.  addr abstracts the four address bytes.
IPv4(a) == [len |-> 4, addr |-> a]
IPv16(a) == [len |-> 16, addr |-> a]

\* net.IP.String(): the dotted quad of the address, whatever the slice length.
IPString(ip) == ip.addr

\* normalizeLimit
normalizeLimit(limit) == IF limit <= 0 THEN 1 ELSE limit

\* normalizeMaxWorkers
normalizeMaxWorkers(maxWorkers) == IF maxWorkers <= 0 THEN 1 ELSE maxWorkers

\* One config.ScanConfig together with the collaborators the pipeline calls on
\* it: samples is what ReadCIDRsSamples returns (one finite sequence per CIDR),
\* good is the set of addresses (by String()) the VM's probe can succeed on,
\* flaky the subset of them on which it can also fail (the endpoint comes and
\* goes), buildErr tells whether BuildVM / ReadCIDRsSamples fail.
ScanConfig(domain, limit, samples, good, flaky, buildErr) ==
    [Domain |-> domain, Limit |-> limit, samples |-> samples, good |-> good,
     flaky |-> flaky, buildErr |-> buildErr]

\* config.Config values the model is run on.  UpdateInterval is in
\* milliseconds; HTTPListen is empty when no status server is configured.
Configs ==
    { \* one domain, two overlapping CIDRs, every probe succeeds, limit 2
      [MaxWorkers |-> 1, UpdateInterval |-> 2000, HTTPListen |-> "",
       Domains |-> << ScanConfig("a.", 2,
                        << <<IPv4(1), IPv4(2)>>, <<IPv16(2)>> >>,
                        {1, 2}, {}, FALSE) >>],
      \* one domain, fewer successes than the limit, the success duplicated
      [MaxWorkers |-> 2, UpdateInterval |-> 2000, HTTPListen |-> "",
       Domains |-> << ScanConfig("a.", 3,
                        << <<IPv4(1), IPv4(2)>>, <<IPv16(2), IPv4(3)>> >>,
                        {2}, {}, FALSE) >>],
      \* two domains competing for one token; result_limit 0 normalises to 1;
      \* the address of the second domain comes and goes
      [MaxWorkers |-> 0, UpdateInterval |-> 2000, HTTPListen |-> "",
       Domains |-> << ScanConfig("a.", 0, << <<IPv4(1), IPv4(2)>> >>,
                        {1, 2}, {}, FALSE),
                      ScanConfig("b.", 2, << <<IPv4(3), IPv4(3)>> >>,
                        {3}, {3}, FALSE) >>],
      \* BuildVM fails for the first domain while the second one scans
      [MaxWorkers |-> 1, UpdateInterval |-> 2000, HTTPListen |-> "",
       Domains |-> << ScanConfig("a.", 1, << <<IPv4(1)>> >>, {1}, {}, TRUE),
                      ScanConfig("b.", 1, << <<IPv4(3)>> >>, {3}, {}, FALSE) >>] }

\* The configurations the DNS read path is run on: one domain whose second
\* address comes and goes, so that successive cycles publish lists of
\* different lengths, with an interval of two seconds and of half a second
\* (the validation of update_interval is gt=0).
ServeConfigs ==
    { [MaxWorkers |-> 1, UpdateInterval |-> i, HTTPListen |-> "",
       Domains |-> << ScanConfig("a.", 2, << <<IPv4(1), IPv4(2)>> >>,
                        {1, 2}, {2}, FALSE) >>] : i \in {2000, 500} }

\* The configuration the liveness of the scheduler and of the pipeline is
\* checked on: one domain, two CIDRs with three candidates, one token.
FairConfigs ==
    { [MaxWorkers |-> 1, UpdateInterval |-> 2000, HTTPListen |-> "",
       Domains |-> << ScanConfig("a.", 2, << <<IPv4(1), IPv4(2)>>, <<IPv4(2)>> >>,
                        {1, 2}, {}, FALSE) >>] }

\* The configurations the whole of Serve (listener, status server, scheduler)
\* is run on: one domain with two CIDRs whose workers share one token, and a
\* domain whose BuildVM fails beside the status server.
TaskConfigs ==
    { [MaxWorkers |-> 1, UpdateInterval |-> 2000, HTTPListen |-> "",
       Domains |-> << ScanConfig("a.", 2, << <<IPv4(1)>>, <<IPv4(2)>> >>,
                        {1, 2}, {}, FALSE) >>],
      [MaxWorkers |-> 1, UpdateInterval |-> 2000, HTTPListen |-> ":8080",
       Domains |-> << ScanConfig("a.", 1, << <<IPv4(1)>> >>, {1}, {}, TRUE) >>] }

\* The configuration the status server's Snapshot is run on beside ServeDNS and
\* the scan cycles: the status server listens, and the second address of the
\* domain comes and goes.
StoreConfigs ==
    { [MaxWorkers |-> 1, UpdateInterval |-> 2000, HTTPListen |-> ":8080",
       Domains |-> << ScanConfig("a.", 2, << <<IPv4(1), IPv4(2)>> >>,
                        {1, 2}, {2}, FALSE) >>] }

\* The configuration the termination of a cycle is checked on: two domains
\* whose workers compete for one token; the first reaches its limit with a
\* candidate left unsent, the second drains its producer below its limit.
CompeteConfigs ==
    { [MaxWorkers |-> 1, UpdateInterval |-> 2000, HTTPListen |-> "",
       Domains |-> << ScanConfig("a.", 1, << <<IPv4(1), IPv4(2)>> >>,
                        {1, 2}, {}, FALSE),
                      ScanConfig("b.", 2, << <<IPv4(3)>> >>, {3}, {}, FALSE) >>] }

\* The configuration the lock of the record store is checked on: two domains,
\* hence two UpdateRecords calls per cycle, beside both readers.  The second
\* domain has no CIDR and publishes an empty list.
LockConfigs ==
    { [MaxWorkers |-> 2, UpdateInterval |-> 2000, HTTPListen |-> ":8080",
       Domains |-> << ScanConfig("a.", 1, << <<IPv4(1)>> >>, {1}, {}, FALSE),
                      ScanConfig("b.", 1, << >>, {}, {}, FALSE) >>] }

\* The configurations the publication of an empty list is checked on: a
\* domain whose only candidate comes and goes, and a domain without CIDR.
EmptyConfigs ==
    { [MaxWorkers |-> 1, UpdateInterval |-> 2000, HTTPListen |-> "",
       Domains |-> << ScanConfig("a.", 1, << <<IPv4(1)>> >>, {1}, {1}, FALSE) >>],
      [MaxWorkers |-> 1, UpdateInterval |-> 2000, HTTPListen |-> "",
       Domains |-> << ScanConfig("a.", 1, << >>, {}, {}, FALSE) >>] }

\* The configurations the number of workers of a domain is checked on: more
\* tokens than CIDRs, with a second candidate behind the first, and more CIDRs
\* than tokens.
WorkerConfigs ==
    { [MaxWorkers |-> 3, UpdateInterval |-> 2000, HTTPListen |-> "",
       Domains |-> << ScanConfig("a.", 2, << <<IPv4(1), IPv4(2)>> >>,
                        {1, 2}, {}, FALSE) >>],
      [MaxWorkers |-> 1, UpdateInterval |-> 2000, HTTPListen |-> "",
       Domains |-> << ScanConfig("a.", 2, << <<IPv4(1)>>, <<IPv4(2)>> >>,
                        {1}, {}, FALSE) >>] }

\* The configuration the timing of the ticks is checked on: one domain with
\* one candidate and an interval of two seconds.
TimeConfigs ==
    { [MaxWorkers |-> 1, UpdateInterval |-> 2000, HTTPListen |-> "",
       Domains |-> << ScanConfig("a.", 1, << <<IPv4(1)>> >>, {1}, {}, FALSE) >>] }

\* The amounts of time, in milliseconds, that pass between two steps of the
\* goroutines.
TimeSteps == {1000}

\* The configuration the handling of failed probes is checked on: one domain
\* whose two samplers emit three candidates; the probe fails on the first and
\* on the third, and the second comes and goes.
ProbeConfigs ==
    { [MaxWorkers |-> 1, UpdateInterval |-> 2000, HTTPListen |-> "",
       Domains |-> << ScanConfig("a.", 2, << <<IPv4(1), IPv4(2)>>, <<IPv4(3)>> >>,
                        {2}, {2}, FALSE) >>] }

VARIABLES
    cfg,            \* the config.Config of this run
    serveCtxErr,    \* the context passed to Serve is cancelled
    dnsTask,        \* the goroutine of Serve that runs dnsServer.Serve
    httpTask,       \* the goroutine of Serve that runs serveHTTP
    serveErr,       \* first error recorded by Serve's errgroup
    servePc,        \* Serve itself: in group.Wait() or returned
    ctxErr,         \* Serve's groupCtx, which recordUpdater gets, is cancelled
    groupCtxErr,    \* recordUpdater's errgroup context is cancelled
    groupErr,       \* first error recorded by recordUpdater's errgroup
    updPc,          \* the scheduler goroutine of Serve
    cycle,          \* number of recordUpdater calls started
    workerTokens,   \* number of tokens in the workerTokens channel
    pdPc,           \* processDomain, per domain
    domainCtxErr,   \* collectIPs' domainCtx is cancelled, per domain
    ipChClosed,     \* close(ipCh) has run, per domain
    prodPc,         \* producers, per domain and CIDR
    prodIdx,        \* position of each producer in its sample sequence
    wPc,            \* workers (runWorker), per domain and index
    wIp,            \* the candidate a worker holds
    wSuccess,       \* result of the worker's last runScan
    wSrc,           \* history: <<producer, position>> the held candidate came from
    okMu,           \* holder of collectIPs' okMu (0: unlocked), per domain
    okIPs,          \* collectIPs' okIPs slice header [arr, len], per domain
    seen,           \* the dedup map of the running cycle, per domain
    heap,           \* backing arrays of the okIPs slices: heap[d][arr]
    succeeded,      \* history: addresses runScan returned success for, this cycle
    probed,         \* history: candidates ExecuteIP was started on, this cycle
    scanRejected,   \* history: candidates counted by scanRejectedCounter, this cycle
    timerArmed,     \* Serve's timer is running
    timerC,         \* ticks buffered in timer.C (capacity 1)
    updErr,         \* the error the scheduler goroutine returned
    memory,         \* dnsHandler.memory: name -> slice header
    updatedAt,      \* dnsHandler.updatedAt: name -> time
    rwWriter,       \* domain whose UpdateRecords holds rwMux.Lock (0: none)
    rwReaders,      \* number of holders of rwMux.RLock
    clock,          \* the wall clock read by time.Now()
    urNow,          \* UpdateRecords' local now, per domain
    published,      \* history: name -> lists and times of the last two UpdateRecords calls
    dnsPc,          \* the ServeDNS invocation in progress
    dnsReq,         \* its request: a sequence of questions
    dnsRes,         \* its local res (a slice header) after the lookup
    dnsMsg,         \* the reply it wrote last
    dnsWriter,      \* the dns.ResponseWriter of the listener: "ok" or "broken"
    dnsWrites,      \* the results of the w.WriteMsg calls of the invocation
    snapPc,         \* the Snapshot call of the status handler, and its caller
    snapCopy,       \* Snapshot's loop variables: key and copyRecords
    snapResult,     \* Snapshot's result map
    parseIn,        \* the config file and the args map given to config.Parse
    parseOut,       \* what Parse returned: its error and dst
    validateOut,    \* what Config.Validate returned for dst
    now,            \* the time, in milliseconds since Serve was called
    timerAt,        \* the time Serve's timer is set to fire at
    tickAt,         \* history: the time the last tick was put in timer.C
    cycleAt         \* history: the time the last cycle started by a tick began

scanVars == <<pdPc, domainCtxErr, ipChClosed, prodPc, prodIdx, wPc, wIp,
              wSuccess, wSrc, okMu, okIPs, seen, heap, succeeded, probed,
              scanRejected, workerTokens>>
taskVars == <<serveCtxErr, dnsTask, httpTask, serveErr, servePc>>
schedVars == <<ctxErr, groupCtxErr, groupErr, updPc, cycle, timerArmed,
               timerC, updErr, taskVars>>
storeVars == <<memory, updatedAt, rwWriter, rwReaders, clock, urNow,
               published>>
snapVars == <<snapPc, snapCopy, snapResult>>
dnsVars == <<dnsPc, dnsReq, dnsRes, dnsMsg, dnsWriter, dnsWrites, snapVars>>
parseVars == <<parseIn, parseOut, validateOut>>
timeVars == <<now, timerAt, tickAt, cycleAt>>
vars == <<cfg, scanVars, schedVars, storeVars, dnsVars, parseVars, timeVars>>

\* ------------------------------------------------------------------ helpers
DomIdx == DOMAIN cfg.Domains
Samples(d) == cfg.Domains[d].samples
\* A collectIPs that starts as many workers as the budget has tokens.
WorkersPerToken(d) == 1..normalizeMaxWorkers(cfg.MaxWorkers)

\* collectIPs starts one producer and one worker per sample sequence.
Producers(d) == DOMAIN Samples(d)
Workers(d) == DOMAIN Samples(d)
Limit(d) == normalizeLimit(cfg.Domains[d].Limit)
TokenCap == normalizeMaxWorkers(cfg.MaxWorkers)
Key(d) == cfg.Domains[d].Domain

NoIP == [len |-> 0, addr |-> 0]
NoSlice == [dom |-> 0, arr |-> 0, len |-> 0]
NoCopy == [key |-> "", IPs |-> <<>>]

\* The elements a slice header h gives access to.  A cell of the backing
\* array that was never written reads as the zero value.
Slice(h) ==
    [i \in 1..h.len |->
        IF i <= Len(heap[h.dom][h.arr]) THEN heap[h.dom][h.arr][i] ELSE NoIP]

\* Blocking waits that do not select on ctx.Done(): cancellation leaves the
\* parked workers where they are.
WakeWorkersNever(wp) == wp

\* A send that does not select on ctx.Done(): cancellation leaves the parked
\* producers where they are.
WakeProducersNever(pp) == pp

\* Goroutines parked in a select on ctx.Done() are claimed by the close of
\* Done: the only thing left for them is to return.
WakeWorkers(wp) ==
    [w \in DOMAIN wp |->
        IF wp[w] \in {"recvParked", "acquireParked"} THEN "done" ELSE wp[w]]
WakeProducers(pp) ==
    [p \in DOMAIN pp |-> IF pp[p] = "sendParked" THEN "done" ELSE pp[p]]

\* Domains whose collectIPs has created its domainCtx.
Scanning(d) == pdPc[d] \notin {"idle", "start"}


\* m[k] = v on a Go map.
MapSet(m, k, v) == [x \in DOMAIN m \cup {k} |-> IF x = k THEN v ELSE m[x]]

\* Writing cell i of a backing array (i is at most one past the written part).
WriteAt(arr, i, v) == IF i <= Len(arr) THEN [arr EXCEPT ![i] = v] ELSE Append(arr, v)

\* ---------------------------------------------------- configuration parsing
\* Strings whose content matters are sequences of characters.
HasPrefix(value, prefix) ==
    /\ Len(value) >= Len(prefix)
    /\ SubSeq(value, 1, Len(prefix)) = prefix

\* A key of the config file is absent (<<>>) or carries a value (<<v>>);
\* decoding leaves the field of an absent key at its zero value.
Decoded(f, zero) == IF f = <<>> THEN zero ELSE f[1]

NoInput == [file |-> [exists |-> FALSE, readable |-> TRUE, Domains |-> <<>>],
            args |-> [path |-> <<>>, sample_min |-> 0, sample_max |-> 0,
                      cidrs |-> <<>>]]
NoOutput == [err |-> "none", dst |-> [Domains |-> <<>>]]

\* The domain entries of the config files Parse is run on: path absent,
\* "/h" or "h"; sample_min and sample_max absent or given, also as 0; cidr
\* absent, empty or with one element.
FileDomains ==
    [path : {<<>>, << <<"/", "h">> >>, << <<"h">> >>},
     sample_min : {<<>>, <<0>>, <<9>>, <<-1>>},
     sample_max : {<<>>, <<0>>, <<2>>},
     cidr : {<<>>, << <<>> >>, << <<"198.51.100.0/24">> >>}]

\* The config files: none (--config not given), one that cannot be read, one
\* without a domains key, and one with a single domain.
ParseFiles ==
    {[exists |-> FALSE, readable |-> TRUE, Domains |-> <<>>],
     [exists |-> TRUE, readable |-> FALSE, Domains |-> <<>>],
     [exists |-> TRUE, readable |-> TRUE, Domains |-> <<>>]}
    \cup {[exists |-> TRUE, readable |-> TRUE, Domains |-> <<fd>>] : fd \in FileDomains}

\* The args map built from the flags.
ParseArgs ==
    [path : {<<"/">>}, sample_min : {0, 3}, sample_max : {0, 8},
     cidrs : {<<>>, <<"10.0.0.0/8">>}]

ParseInputs == [file : ParseFiles, args : ParseArgs]

\* decoder.Decode(cfg) into a ScanConfig.
DecodeScanConfig(fd) ==
    [Path |-> Decoded(fd.path, <<>>),
     SamplesMinimum |-> Decoded(fd.sample_min, 0),
     SamplesMaximum |-> Decoded(fd.sample_max, 0),
     CIDRs |-> Decoded(fd.cidr, <<>>)]

\* defaulter.ApplyDefaults(v, args) on a ScanConfig: a field with a default
\* tag that holds its zero value gets the value of the arg the tag names.
ApplyDefaults(v, args) ==
    [v EXCEPT !.Path = IF @ = <<>> THEN args.path ELSE @,
              !.SamplesMinimum = IF @ = 0 THEN args.sample_min ELSE @,
              !.SamplesMaximum = IF @ = 0 THEN args.sample_max ELSE @]

getCIDRs(args) == args.cidrs

\* Parse, for one entry of dst.Domains: decode, ApplyDefaults, and the CIDR
\* list of the args if the domain has none.
ParseDomain(fd, args) ==
    LET v == ApplyDefaults(DecodeScanConfig(fd), args) IN
    IF Len(v.CIDRs) = 0 THEN [v EXCEPT !.CIDRs = getCIDRs(args)] ELSE v

\* config.Parse(ctx, dst, path, args): the error it returns and dst.
Parse(in) ==
    IF in.file.exists /\ ~in.file.readable
      THEN [err |-> "failed to read and merge configs",
            dst |-> [Domains |-> <<>>]]
      ELSE [err |-> "nil",
            dst |-> [Domains |->
                       [i \in DOMAIN in.file.Domains |->
                           ParseDomain(in.file.Domains[i], in.args)]]]

\* validateHTTPPath.
validateHTTPPath(value) == HasPrefix(value, <<"/">>)

\* A struct-level check that compares the bounds whatever sample_max is.
validateScanConfigStructAnyMax(sc) ==
    IF sc.SamplesMinimum > sc.SamplesMaximum
      THEN {<<"sample_min", "sample_bounds">>} ELSE {}

\* validateScanConfigStruct: the errors it reports, as <<field, tag>>.
validateScanConfigStruct(sc) ==
    IF sc.SamplesMaximum > 0 /\ sc.SamplesMinimum > sc.SamplesMaximum
      THEN {<<"sample_min", "sample_bounds">>} ELSE {}

\* v.Struct(domainCfg): the validate tags of ScanConfig's fields, then the
\* struct-level check.
ValidateScanConfig(sc) ==
    (IF sc.Path = <<>> THEN {<<"path", "required">>}
       ELSE IF ~validateHTTPPath(sc.Path) THEN {<<"path", "path">>} ELSE {})
    \cup (IF sc.SamplesMinimum >= 0 THEN {} ELSE {<<"sample_min", "gte">>})
    \cup (IF sc.SamplesMaximum >= 0 THEN {} ELSE {<<"sample_max", "gte">>})
    \cup (IF Len(sc.CIDRs) = 0 THEN {<<"cidr", "required">>} ELSE {})
    \cup validateScanConfigStruct(sc)

\* Config.Validate: the errors of the Config's own tags (prefix 0) and of
\* each domain (prefix: its index).
Validate(c) ==
    (IF Len(c.Domains) = 0 THEN {<<0, "domains", "required">>} ELSE {})
    \cup UNION {{<<i, e[1], e[2]>> : e \in ValidateScanConfig(c.Domains[i])} :
                 i \in DOMAIN c.Domains}

\* -------------------------------------------------------------------- Init
Init ==
    /\ cfg \in Configs \cup ServeConfigs \cup FairConfigs \cup TaskConfigs
                \cup StoreConfigs \cup LockConfigs \cup CompeteConfigs \cup ProbeConfigs
                \cup TimeConfigs \cup EmptyConfigs \cup WorkerConfigs
    /\ serveCtxErr = FALSE
    /\ dnsTask = "listen"
    /\ httpTask = IF cfg.HTTPListen # "" THEN "serving" ELSE "none"
    /\ serveErr = "none"
    /\ servePc = "waiting"
    /\ ctxErr = FALSE
    /\ groupCtxErr = FALSE
    /\ groupErr = "none"
    /\ updPc = "first"
    /\ cycle = 0
    /\ workerTokens = 0
    /\ pdPc = [d \in DomIdx |-> "idle"]
    /\ domainCtxErr = [d \in DomIdx |-> FALSE]
    /\ ipChClosed = [d \in DomIdx |-> FALSE]
    /\ prodPc = [d \in DomIdx |-> [p \in Producers(d) |-> "done"]]
    /\ prodIdx = [d \in DomIdx |-> [p \in Producers(d) |-> 1]]
    /\ wPc = [d \in DomIdx |-> [w \in Workers(d) |-> "done"]]
    /\ wIp = [d \in DomIdx |-> [w \in Workers(d) |-> NoIP]]
    /\ wSuccess = [d \in DomIdx |-> [w \in Workers(d) |-> FALSE]]
    /\ wSrc = [d \in DomIdx |-> [w \in Workers(d) |-> <<0, 0>>]]
    /\ okMu = [d \in DomIdx |-> 0]
    /\ okIPs = [d \in DomIdx |-> NoSlice]
    /\ seen = [d \in DomIdx |-> {}]
    /\ heap = [d \in DomIdx |-> [a \in 1..MaxCycles |-> <<>>]]
    /\ succeeded = [d \in DomIdx |-> {}]
    /\ probed = [d \in DomIdx |-> {}]
    /\ scanRejected = [d \in DomIdx |-> {}]
    /\ timerArmed = TRUE
    /\ timerC = 0
    /\ updErr = "none"
    /\ memory = <<>>
    /\ updatedAt = <<>>
    /\ rwWriter = 0
    /\ rwReaders = 0
    /\ clock = 1
    /\ urNow = [d \in DomIdx |-> 0]
    /\ published = <<>>
    /\ dnsPc = "idle"
    /\ dnsReq = <<>>
    /\ dnsRes = NoSlice
    /\ dnsMsg = <<>>
    /\ dnsWriter \in {"ok", "broken"}
    /\ dnsWrites = <<>>
    /\ now = 0
    /\ timerAt = cfg.UpdateInterval
    /\ tickAt = 0
    /\ cycleAt = 0
    /\ snapPc = "idle"
    /\ snapCopy = NoCopy
    /\ snapResult = <<>>
    /\ parseIn \in ParseInputs \cup {NoInput}
    /\ parseOut = NoOutput
    /\ validateOut = <<>>

\* --------------------------------------------------------- refresh scheduler
\* recordUpdater up to group.Wait: a fresh token channel, a fresh errgroup
\* context derived from ctx, one processDomain goroutine per domain.
recordUpdaterBegin ==
    /\ cycle' = cycle + 1
    /\ workerTokens' = 0
    /\ groupCtxErr' = ctxErr
    /\ groupErr' = "none"
    /\ pdPc' = [d \in DomIdx |-> "start"]
    /\ UNCHANGED <<domainCtxErr, ipChClosed, prodPc, prodIdx, wPc, wIp,
                   wSuccess, wSrc, okMu, okIPs, seen, heap, succeeded, probed, scanRejected>>
    /\ UNCHANGED <<now, timerAt, tickAt>>
    /\ UNCHANGED <<cfg, parseVars, ctxErr, updErr, storeVars, dnsVars, taskVars>>

\* A scheduler whose first recordUpdater call is inside the timer loop.
ServeFirstUpdateAfterTick ==
    /\ updPc = "first"
    /\ timerC = 1
    /\ recordUpdaterBegin
    /\ updPc' = "running0"
    /\ timerC' = 0
    /\ UNCHANGED <<timerArmed, cycleAt>>

\* Serve's scheduler goroutine: the call of recordUpdater before the loop.
ServeFirstUpdate ==
    /\ updPc = "first"
    /\ recordUpdaterBegin
    /\ updPc' = "running0"
    /\ UNCHANGED <<timerArmed, timerC, cycleAt>>

\* for range timer.C: a tick is received and recordUpdater is called.
ServeTickUpdate ==
    /\ updPc = "waitTick"
    /\ timerC = 1
    /\ cycle < MaxCycles
    /\ recordUpdaterBegin
    /\ updPc' = "running"
    /\ timerC' = 0
    /\ cycleAt' = now
    /\ UNCHANGED timerArmed

\* The runtime fires the timer: the time set by NewTimer or Reset has come
\* and one tick is put in timer.C.
TimerFire ==
    /\ timerArmed
    /\ timerArmed' = FALSE
    /\ timerC' = 1
    /\ now' = IF now < timerAt THEN timerAt ELSE now
    /\ tickAt' = now'
    /\ UNCHANGED <<timerAt, cycleAt>>
    /\ UNCHANGED <<cfg, parseVars, scanVars, storeVars, dnsVars, ctxErr, groupCtxErr,
                   groupErr, updPc, cycle, updErr, taskVars>>

\* Time passes while the goroutines run or wait, up to the time the running
\* timer fires at.
TimePasses ==
    /\ \E dt \in TimeSteps :
          /\ now + dt <= MaxNow
          /\ timerArmed => now + dt <= timerAt
          /\ now' = now + dt
    /\ UNCHANGED <<cfg, parseVars, scanVars, schedVars, storeVars, dnsVars,
                   timerAt, tickAt, cycleAt>>

\* A recordUpdater that tests ctx.Err() before the error of group.Wait().
recordUpdaterResultCtxFirst ==
    IF ctxErr THEN "context canceled"
    ELSE groupErr

\* What recordUpdater returns once group.Wait has returned.
recordUpdaterResult ==
    IF groupErr # "none" THEN groupErr
    ELSE IF ctxErr THEN "context canceled"
    ELSE "none"

\* A loop body that leaves the fired timer as it is.
timerResetNever == UNCHANGED <<timerArmed, timerC, timerAt>>

\* timer.Reset(cfg.UpdateInterval) on the timer whose tick was just received:
\* the timer fires one interval after the call.
timerReset ==
    /\ timerArmed' = TRUE
    /\ timerC' = 0
    /\ timerAt' = now + cfg.UpdateInterval

\* A recordUpdater that does not wait for its goroutines.
groupWaitNever == TRUE

\* group.Wait() can return: every processDomain goroutine has returned.
groupWait == \A d \in DomIdx : pdPc[d] = "done"

\* group.Wait returns (every processDomain has returned; Wait cancels the
\* group context), recordUpdater returns, and the scheduler either returns the
\* error or, inside the loop, resets the timer.  An error the scheduler
\* returns goes to Serve's errgroup, which keeps the first error it is given
\* and cancels groupCtx.
recordUpdaterReturn ==
    /\ updPc \in {"running0", "running"}
    /\ groupWait
    /\ groupCtxErr' = TRUE
    /\ IF recordUpdaterResult # "none"
         THEN /\ updPc' = "returned"
              /\ updErr' = recordUpdaterResult
              /\ serveErr' = IF serveErr = "none" THEN recordUpdaterResult
                                                  ELSE serveErr
              /\ ctxErr' = TRUE
              /\ UNCHANGED <<timerArmed, timerC, timerAt>>
         ELSE /\ updPc' = "waitTick"
              /\ updErr' = updErr
              /\ IF updPc = "running"
                   THEN timerReset
                   ELSE UNCHANGED <<timerArmed, timerC, timerAt>>
              /\ UNCHANGED <<serveErr, ctxErr>>
    /\ UNCHANGED <<now, tickAt, cycleAt>>
    /\ UNCHANGED <<cfg, parseVars, scanVars, storeVars, dnsVars, groupErr, cycle,
                   serveCtxErr, dnsTask, httpTask, servePc>>

\* Serve's groupCtx is cancelled.  Cancellation reaches recordUpdater's group
\* context and every domainCtx derived from it.
cancelGroupCtx ==
    /\ ctxErr' = TRUE
    /\ groupCtxErr' = TRUE
    /\ domainCtxErr' = [d \in DomIdx |-> domainCtxErr[d] \/ Scanning(d)]
    /\ wPc' = [d \in DomIdx |-> IF Scanning(d) THEN WakeWorkers(wPc[d]) ELSE wPc[d]]
    /\ prodPc' = [d \in DomIdx |->
                    IF Scanning(d) THEN WakeProducers(prodPc[d]) ELSE prodPc[d]]
    /\ UNCHANGED <<cfg, parseVars, timeVars, storeVars, dnsVars, groupErr, updPc, cycle, timerArmed,
                   timerC, updErr, pdPc, ipChClosed, prodIdx, wIp, wSuccess,
                   wSrc, okMu, okIPs, seen, heap, succeeded, probed, scanRejected, workerTokens>>

\* The context passed to Serve is cancelled (shutdown, reload); localCtx and
\* groupCtx are derived from it.
CancelCtx ==
    /\ ~serveCtxErr
    /\ updPc # "returned"
    /\ serveCtxErr' = TRUE
    /\ cancelGroupCtx
    /\ UNCHANGED <<dnsTask, httpTask, serveErr, servePc>>


\* ------------------------------------------------------------ scan pipeline
\* collectIPs truncating one long-lived array (okIPs[:0]) instead of
\* allocating a new one for every call.
makeOkIPsReused(d) == [dom |-> d, arr |-> 1, len |-> 0]

\* make([]net.IP, 0, limit): the backing array collectIPs allocates for this
\* call, identified by the number of the refresh cycle.
makeOkIPs(d) == [dom |-> d, arr |-> cycle, len |-> 0]

\* A producer goroutine at the top of `for ip := range iter`: the sampler is
\* exhausted, or sendIP is entered with the next candidate.
ProducerAt(d, p, i) == IF i > Len(Samples(d)[p]) THEN "done" ELSE "send"

\* processDomain up to the point where collectIPs has started its goroutines:
\* BuildVM, ReadCIDRsSamples, then collectIPs' allocations and go statements.
\* An error of BuildVM / ReadCIDRsSamples is returned to the errgroup, which
\* records the first error and cancels the group context.
processDomainStart(d) ==
    /\ pdPc[d] = "start"
    /\ IF cfg.Domains[d].buildErr
         THEN /\ pdPc' = [pdPc EXCEPT ![d] = "done"]
              /\ groupErr' = IF groupErr = "none" THEN "build failed" ELSE groupErr
              /\ groupCtxErr' = TRUE
              /\ domainCtxErr' = [e \in DomIdx |-> domainCtxErr[e] \/ Scanning(e)]
              /\ wPc' = [e \in DomIdx |->
                           IF Scanning(e) THEN WakeWorkers(wPc[e]) ELSE wPc[e]]
              /\ prodPc' = [e \in DomIdx |->
                              IF Scanning(e) THEN WakeProducers(prodPc[e])
                              ELSE prodPc[e]]
              /\ UNCHANGED <<ipChClosed, prodIdx, wIp, wSuccess, wSrc, okMu,
                             okIPs, seen, succeeded, probed, scanRejected>>
         ELSE /\ okIPs' = [okIPs EXCEPT ![d] = makeOkIPs(d)]
              /\ seen' = [seen EXCEPT ![d] = {}]
              \* a context derived from a cancelled one is cancelled; with
              \* no worker the deferred cancel() runs at once
              /\ domainCtxErr' = [domainCtxErr EXCEPT ![d] =
                                    groupCtxErr \/ Workers(d) = {}]
              /\ ipChClosed' = [ipChClosed EXCEPT ![d] = FALSE]
              /\ prodIdx' = [prodIdx EXCEPT ![d] = [p \in Producers(d) |-> 1]]
              /\ prodPc' = [prodPc EXCEPT ![d] =
                               [p \in Producers(d) |-> ProducerAt(d, p, 1)]]
              /\ wPc' = [wPc EXCEPT ![d] = [w \in Workers(d) |-> "recv"]]
              /\ wIp' = [wIp EXCEPT ![d] = [w \in Workers(d) |-> NoIP]]
              /\ wSuccess' = [wSuccess EXCEPT ![d] = [w \in Workers(d) |-> FALSE]]
              /\ wSrc' = [wSrc EXCEPT ![d] = [w \in Workers(d) |-> <<0, 0>>]]
              /\ okMu' = [okMu EXCEPT ![d] = 0]
              /\ succeeded' = [succeeded EXCEPT ![d] = {}]
              /\ probed' = [probed EXCEPT ![d] = {}]
              /\ scanRejected' = [scanRejected EXCEPT ![d] = {}]
              \* workerCount == 0: collectIPs returns at once
              /\ pdPc' = [pdPc EXCEPT ![d] =
                             IF Workers(d) = {} THEN "check" ELSE "wait"]
              /\ UNCHANGED <<groupErr, groupCtxErr>>
    /\ UNCHANGED <<cfg, parseVars, timeVars, storeVars, dnsVars, heap, workerTokens, ctxErr, updPc,
                   cycle, timerArmed, timerC, updErr, taskVars>>

\* The candidate producer p of domain d is about to send.
Candidate(d, p) == Samples(d)[p][prodIdx[d][p]]

\* sendIP, entered by producer p: ctx.Done() is closed, or a worker is parked
\* in recvIP and takes the candidate, or nothing is ready and the producer
\* parks.
sendIP(d, p) ==
    /\ Scanning(d)
    /\ prodPc[d][p] = "send"
    /\ \/ /\ domainCtxErr[d]
          /\ prodPc' = [prodPc EXCEPT ![d][p] = "done"]
          /\ UNCHANGED <<prodIdx, wPc, wIp, wSrc>>
       \/ \E w \in Workers(d) :
            /\ wPc[d][w] = "recvParked"
            /\ wPc' = [wPc EXCEPT ![d][w] = "acquire"]
            /\ wIp' = [wIp EXCEPT ![d][w] = Candidate(d, p)]
            /\ wSrc' = [wSrc EXCEPT ![d][w] = <<p, prodIdx[d][p]>>]
            /\ prodIdx' = [prodIdx EXCEPT ![d][p] = @ + 1]
            /\ prodPc' = [prodPc EXCEPT ![d][p] = ProducerAt(d, p, prodIdx[d][p] + 1)]
       \/ /\ ~domainCtxErr[d]
          /\ \A w \in Workers(d) : wPc[d][w] # "recvParked"
          /\ prodPc' = [prodPc EXCEPT ![d][p] = "sendParked"]
          /\ UNCHANGED <<prodIdx, wPc, wIp, wSrc>>
    /\ UNCHANGED <<cfg, parseVars, timeVars, schedVars, storeVars, dnsVars, pdPc, domainCtxErr,
                   ipChClosed, wSuccess, okMu, okIPs, seen, heap, succeeded,
                   probed, scanRejected, workerTokens>>

\* A supervisor that closes the channel without producers.Wait().
closeIpChNoWait(d) ==
    /\ Scanning(d)
    /\ ~ipChClosed[d]
    /\ ipChClosed' = [ipChClosed EXCEPT ![d] = TRUE]
    /\ wPc' = [wPc EXCEPT ![d] =
                 [w \in Workers(d) |->
                     IF wPc[d][w] = "recvParked" THEN "done" ELSE wPc[d][w]]]
    /\ UNCHANGED <<cfg, parseVars, timeVars, schedVars, storeVars, dnsVars, pdPc, domainCtxErr,
                   prodPc, prodIdx, wIp, wSuccess, wSrc, okMu, okIPs, seen,
                   heap, succeeded, probed, scanRejected, workerTokens>>

\* A collectIPs without the supervisor goroutine.
closeIpChNever(d) == FALSE

\* The supervisor goroutine: producers.Wait() has returned, close(ipCh).
\* Workers parked in recvIP get ok = false and return.
closeIpCh(d) ==
    /\ Scanning(d)
    /\ ~ipChClosed[d]
    /\ \A p \in Producers(d) : prodPc[d][p] = "done"
    /\ ipChClosed' = [ipChClosed EXCEPT ![d] = TRUE]
    /\ wPc' = [wPc EXCEPT ![d] =
                 [w \in Workers(d) |->
                     IF wPc[d][w] = "recvParked" THEN "done" ELSE wPc[d][w]]]
    /\ UNCHANGED <<cfg, parseVars, timeVars, schedVars, storeVars, dnsVars, pdPc, domainCtxErr,
                   prodPc, prodIdx, wIp, wSuccess, wSrc, okMu, okIPs, seen,
                   heap, succeeded, probed, scanRejected, workerTokens>>

\* A recvIP that drops the ok of the receive: on the closed channel it
\* returns the zero value as a candidate.
recvIPIgnoreOk(d, w) ==
    /\ Scanning(d)
    /\ wPc[d][w] = "recv"
    /\ \/ /\ domainCtxErr[d]
          /\ wPc' = [wPc EXCEPT ![d][w] = "done"]
          /\ UNCHANGED <<prodPc, prodIdx, wIp, wSrc>>
       \/ /\ ipChClosed[d]
          /\ ~domainCtxErr[d]
          /\ wPc' = [wPc EXCEPT ![d][w] = "acquire"]
          /\ wIp' = [wIp EXCEPT ![d][w] = NoIP]
          /\ UNCHANGED <<prodPc, prodIdx, wSrc>>
       \/ \E p \in Producers(d) :
            /\ prodPc[d][p] = "sendParked"
            /\ wPc' = [wPc EXCEPT ![d][w] = "acquire"]
            /\ wIp' = [wIp EXCEPT ![d][w] = Candidate(d, p)]
            /\ wSrc' = [wSrc EXCEPT ![d][w] = <<p, prodIdx[d][p]>>]
            /\ prodIdx' = [prodIdx EXCEPT ![d][p] = @ + 1]
            /\ prodPc' = [prodPc EXCEPT ![d][p] = ProducerAt(d, p, prodIdx[d][p] + 1)]
       \/ /\ ~domainCtxErr[d]
          /\ ~ipChClosed[d]
          /\ \A p \in Producers(d) : prodPc[d][p] # "sendParked"
          /\ wPc' = [wPc EXCEPT ![d][w] = "recvParked"]
          /\ UNCHANGED <<prodPc, prodIdx, wIp, wSrc>>
    /\ UNCHANGED <<cfg, parseVars, timeVars, schedVars, storeVars, dnsVars, pdPc, domainCtxErr,
                   ipChClosed, wSuccess, okMu, okIPs, seen, heap, succeeded,
                   probed, scanRejected, workerTokens>>

\* recvIP, entered by worker w: ctx.Done() is closed, or the channel is
\* closed, or a producer is parked in sendIP and hands over its candidate, or
\* nothing is ready and the worker parks.
recvIP(d, w) ==
    /\ Scanning(d)
    /\ wPc[d][w] = "recv"
    /\ \/ /\ domainCtxErr[d] \/ ipChClosed[d]
          /\ wPc' = [wPc EXCEPT ![d][w] = "done"]
          /\ UNCHANGED <<prodPc, prodIdx, wIp, wSrc>>
       \/ \E p \in Producers(d) :
            /\ prodPc[d][p] = "sendParked"
            /\ wPc' = [wPc EXCEPT ![d][w] = "acquire"]
            /\ wIp' = [wIp EXCEPT ![d][w] = Candidate(d, p)]
            /\ wSrc' = [wSrc EXCEPT ![d][w] = <<p, prodIdx[d][p]>>]
            /\ prodIdx' = [prodIdx EXCEPT ![d][p] = @ + 1]
            /\ prodPc' = [prodPc EXCEPT ![d][p] = ProducerAt(d, p, prodIdx[d][p] + 1)]
       \/ /\ ~domainCtxErr[d]
          /\ ~ipChClosed[d]
          /\ \A p \in Producers(d) : prodPc[d][p] # "sendParked"
          /\ wPc' = [wPc EXCEPT ![d][w] = "recvParked"]
          /\ UNCHANGED <<prodPc, prodIdx, wIp, wSrc>>
    /\ UNCHANGED <<cfg, parseVars, timeVars, schedVars, storeVars, dnsVars, pdPc, domainCtxErr,
                   ipChClosed, wSuccess, okMu, okIPs, seen, heap, succeeded,
                   probed, scanRejected, workerTokens>>

\* A token channel made one slot too large.
TokenFreeOffByOne == workerTokens <= TokenCap

\* The buffered channel workerTokens has room for one more token.
TokenFree == workerTokens < TokenCap

\* acquireToken, entered by worker w holding a candidate: ctx.Done() is
\* closed (the candidate is abandoned), or the channel has room (the token is
\* sent and runScan starts ExecuteIP), or neither and the worker parks.
acquireToken(d, w) ==
    /\ Scanning(d)
    /\ wPc[d][w] = "acquire"
    /\ \/ /\ domainCtxErr[d]
          /\ wPc' = [wPc EXCEPT ![d][w] = "done"]
          /\ UNCHANGED <<workerTokens, probed>>
       \/ /\ TokenFree
          /\ workerTokens' = workerTokens + 1
          /\ wPc' = [wPc EXCEPT ![d][w] = "scan"]
          /\ probed' = [probed EXCEPT ![d] = @ \cup {wSrc[d][w]}]
       \/ /\ ~domainCtxErr[d]
          /\ ~TokenFree
          /\ wPc' = [wPc EXCEPT ![d][w] = "acquireParked"]
          /\ UNCHANGED <<workerTokens, probed>>
    /\ UNCHANGED <<cfg, parseVars, timeVars, schedVars, storeVars, dnsVars, pdPc, domainCtxErr,
                   ipChClosed, prodPc, prodIdx, wIp, wSuccess, wSrc, okMu,
                   okIPs, seen, heap, succeeded, scanRejected>>

\* The results vmRuntime.ExecuteIP(ctx, ip) can return: the probe succeeds
\* on the good addresses only; it can fail on a flaky one, and once ctx is
\* cancelled the VM may abort the probe and report failure.
ExecuteIP(d, ip) ==
    {IPString(ip) \in cfg.Domains[d].good} \cup
        (IF domainCtxErr[d] \/ IPString(ip) \in cfg.Domains[d].flaky
           THEN {FALSE} ELSE {})

\* runScan returns: ExecuteIP has finished with result res.Success.
runScan(d, w) ==
    /\ Scanning(d)
    /\ wPc[d][w] = "scan"
    /\ \E success \in ExecuteIP(d, wIp[d][w]) :
          /\ wSuccess' = [wSuccess EXCEPT ![d][w] = success]
          /\ succeeded' = [succeeded EXCEPT ![d] =
                              IF success THEN @ \cup {IPString(wIp[d][w])} ELSE @]
    /\ wPc' = [wPc EXCEPT ![d][w] = "release"]
    /\ UNCHANGED <<cfg, parseVars, timeVars, schedVars, storeVars, dnsVars, pdPc, domainCtxErr,
                   ipChClosed, prodPc, prodIdx, wIp, wSrc, okMu, okIPs, seen,
                   heap, probed, scanRejected, workerTokens>>

\* Workers of any domain parked in acquireToken on the full channel.
ParkedAcquirers ==
    {x \in UNION {{<<e, v>> : v \in Workers(e)} : e \in DomIdx} :
        wPc[x[1]][x[2]] = "acquireParked"}

\* A runWorker that goes on to evaluate the outcome with its token in the
\* channel.
releaseTokenLate(d, w) ==
    /\ Scanning(d)
    /\ wPc[d][w] = "release"
    /\ wPc' = [wPc EXCEPT ![d][w] = "record"]
    /\ UNCHANGED <<workerTokens, probed>>
    /\ UNCHANGED <<cfg, parseVars, timeVars, schedVars, storeVars, dnsVars, pdPc, domainCtxErr,
                   ipChClosed, prodPc, prodIdx, wIp, wSuccess, wSrc, okMu,
                   okIPs, seen, heap, succeeded, scanRejected>>

\* A runWorker that releases the token of a successful probe only.
releaseTokenOnSuccess(d, w) ==
    /\ Scanning(d)
    /\ wPc[d][w] = "release"
    /\ workerTokens' = IF wSuccess[d][w] THEN workerTokens - 1 ELSE workerTokens
    /\ wPc' = [wPc EXCEPT ![d][w] = "record"]
    /\ UNCHANGED probed
    /\ UNCHANGED <<cfg, parseVars, timeVars, schedVars, storeVars, dnsVars, pdPc, domainCtxErr,
                   ipChClosed, prodPc, prodIdx, wIp, wSuccess, wSrc, okMu,
                   okIPs, seen, heap, succeeded, scanRejected>>

\* releaseToken: <-workerTokens, which blocks on an empty channel.  When
\* senders are parked on the full channel the receive takes the oldest token
\* and the runtime moves one parked sender's token into the buffer, which
\* starts that worker's runScan.
releaseToken(d, w) ==
    /\ Scanning(d)
    /\ wPc[d][w] = "release"
    /\ workerTokens >= 1
    /\ IF ParkedAcquirers = {}
         THEN /\ workerTokens' = workerTokens - 1
              /\ wPc' = [wPc EXCEPT ![d][w] = "record"]
              /\ UNCHANGED probed
         ELSE \E x \in ParkedAcquirers :
                /\ workerTokens' = workerTokens
                /\ wPc' = [e \in DomIdx |-> [v \in Workers(e) |->
                             IF <<e, v>> = <<d, w>> THEN "record"
                             ELSE IF <<e, v>> = x THEN "scan"
                             ELSE wPc[e][v]]]
                /\ probed' = [probed EXCEPT ![x[1]] = @ \cup {wSrc[x[1]][x[2]]}]
    /\ UNCHANGED <<cfg, parseVars, timeVars, schedVars, storeVars, dnsVars, pdPc, domainCtxErr,
                   ipChClosed, prodPc, prodIdx, wIp, wSuccess, wSrc, okMu,
                   okIPs, seen, heap, succeeded, scanRejected>>

\* metrics.recordScanResult(domain, sni, accepted): the accepted counter or
\* the rejected counter of the domain is incremented.
CountScanResult(d, w) ==
    scanRejected' = [scanRejected EXCEPT ![d] =
                        IF wSuccess[d][w] THEN @ ELSE @ \cup {wSrc[d][w]}]

\* runWorker without `if !success { continue }`: every probed candidate goes
\* on to acceptIP.
recordScanResultNoContinue(d, w) ==
    /\ Scanning(d)
    /\ wPc[d][w] = "record"
    /\ CountScanResult(d, w)
    /\ wPc' = [wPc EXCEPT ![d][w] = "lock"]
    /\ UNCHANGED <<cfg, parseVars, timeVars, schedVars, storeVars, dnsVars, pdPc, domainCtxErr,
                   ipChClosed, prodPc, prodIdx, wIp, wSuccess, wSrc, okMu,
                   okIPs, seen, heap, succeeded, probed, workerTokens>>

\* runWorker with `if !success { return }`: a failed probe ends the worker.
recordScanResultReturn(d, w) ==
    /\ Scanning(d)
    /\ wPc[d][w] = "record"
    /\ CountScanResult(d, w)
    /\ wPc' = [wPc EXCEPT ![d][w] = IF wSuccess[d][w] THEN "lock" ELSE "done"]
    /\ UNCHANGED <<cfg, parseVars, timeVars, schedVars, storeVars, dnsVars, pdPc, domainCtxErr,
                   ipChClosed, prodPc, prodIdx, wIp, wSuccess, wSrc, okMu,
                   okIPs, seen, heap, succeeded, probed, workerTokens>>

\* recordScanResult, then `if !success { continue }`.
recordScanResult(d, w) ==
    /\ Scanning(d)
    /\ wPc[d][w] = "record"
    /\ CountScanResult(d, w)
    /\ wPc' = [wPc EXCEPT ![d][w] = IF wSuccess[d][w] THEN "lock" ELSE "recv"]
    /\ UNCHANGED <<cfg, parseVars, timeVars, schedVars, storeVars, dnsVars, pdPc, domainCtxErr,
                   ipChClosed, prodPc, prodIdx, wIp, wSuccess, wSrc, okMu,
                   okIPs, seen, heap, succeeded, probed, workerTokens>>

\* acceptIP up to okMu.Lock().
acceptIPLock(d, w) ==
    /\ Scanning(d)
    /\ wPc[d][w] = "lock"
    /\ okMu[d] = 0
    /\ okMu' = [okMu EXCEPT ![d] = w]
    /\ wPc' = [wPc EXCEPT ![d][w] = "crit"]
    /\ UNCHANGED <<cfg, parseVars, timeVars, schedVars, storeVars, dnsVars, pdPc, domainCtxErr,
                   ipChClosed, prodPc, prodIdx, wIp, wSuccess, wSrc, okIPs,
                   seen, heap, succeeded, probed, scanRejected, workerTokens>>

\* acceptIP without the dedup map: only the limit check.
RejectedNoSeen(d, ip) == okIPs[d].len >= Limit(d)

\* acceptIP's two early returns: the limit is reached already, or the
\* String() of the address is in seen.
Rejected(d, ip) == okIPs[d].len >= Limit(d) \/ IPString(ip) \in seen[d]

\* An acceptIP whose cancel() is the cancel function of the context every
\* domain of the cycle shares: reaching the limit stops the siblings too.
acceptIPCancelShared(d, w) ==
    /\ Scanning(d)
    /\ wPc[d][w] = "crit"
    /\ okMu' = [okMu EXCEPT ![d] = 0]
    /\ IF Rejected(d, wIp[d][w])
         THEN /\ wPc' = [wPc EXCEPT ![d][w] = "recv"]
              /\ UNCHANGED <<seen, okIPs, heap, domainCtxErr, prodPc>>
         ELSE /\ seen' = [seen EXCEPT ![d] = @ \cup {IPString(wIp[d][w])}]
              /\ okIPs' = [okIPs EXCEPT ![d].len = @ + 1]
              /\ heap' = [heap EXCEPT ![d][okIPs[d].arr] =
                             WriteAt(@, okIPs[d].len + 1, wIp[d][w])]
              /\ IF okIPs[d].len + 1 = Limit(d)
                   THEN /\ domainCtxErr' = [e \in DomIdx |->
                                               domainCtxErr[e] \/ Scanning(e)]
                        /\ wPc' = [e \in DomIdx |->
                                     IF e = d
                                       THEN WakeWorkers([wPc[d] EXCEPT ![w] = "recv"])
                                     ELSE IF Scanning(e) THEN WakeWorkers(wPc[e])
                                     ELSE wPc[e]]
                        /\ prodPc' = [e \in DomIdx |->
                                        IF Scanning(e) THEN WakeProducers(prodPc[e])
                                        ELSE prodPc[e]]
                   ELSE /\ wPc' = [wPc EXCEPT ![d][w] = "recv"]
                        /\ UNCHANGED <<domainCtxErr, prodPc>>
    /\ UNCHANGED <<cfg, parseVars, timeVars, schedVars, storeVars, dnsVars, pdPc, ipChClosed,
                   prodIdx, wIp, wSuccess, wSrc, succeeded, probed, scanRejected,
                   workerTokens>>

\* acceptIP under okMu: the checks, the append, cancel() when the limit is
\* reached, and the deferred Unlock.
acceptIP(d, w) ==
    /\ Scanning(d)
    /\ wPc[d][w] = "crit"
    /\ okMu' = [okMu EXCEPT ![d] = 0]
    /\ IF Rejected(d, wIp[d][w])
         THEN /\ wPc' = [wPc EXCEPT ![d][w] = "recv"]
              /\ UNCHANGED <<seen, okIPs, heap, domainCtxErr, prodPc>>
         ELSE /\ seen' = [seen EXCEPT ![d] = @ \cup {IPString(wIp[d][w])}]
              /\ okIPs' = [okIPs EXCEPT ![d].len = @ + 1]
              /\ heap' = [heap EXCEPT ![d][okIPs[d].arr] =
                             WriteAt(@, okIPs[d].len + 1, wIp[d][w])]
              /\ IF okIPs[d].len + 1 = Limit(d)
                   THEN /\ domainCtxErr' = [domainCtxErr EXCEPT ![d] = TRUE]
                        /\ wPc' = [wPc EXCEPT ![d] =
                                     WakeWorkers([wPc[d] EXCEPT ![w] = "recv"])]
                        /\ prodPc' = [prodPc EXCEPT ![d] = WakeProducers(@)]
                   ELSE /\ wPc' = [wPc EXCEPT ![d][w] = "recv"]
                        /\ UNCHANGED <<domainCtxErr, prodPc>>
    /\ UNCHANGED <<cfg, parseVars, timeVars, schedVars, storeVars, dnsVars, pdPc, ipChClosed,
                   prodIdx, wIp, wSuccess, wSrc, succeeded, probed, scanRejected,
                   workerTokens>>

\* workers.Wait() can return.
workersDone(d) == \A w \in Workers(d) : wPc[d][w] = "done"

\* collectIPs returns: workers.Wait() has returned and the deferred cancel()
\* closes domainCtx.
collectIPsReturn(d) ==
    /\ pdPc[d] = "wait"
    /\ workersDone(d)
    /\ pdPc' = [pdPc EXCEPT ![d] = "check"]
    /\ domainCtxErr' = [domainCtxErr EXCEPT ![d] = TRUE]
    /\ prodPc' = [prodPc EXCEPT ![d] = WakeProducers(@)]
    /\ UNCHANGED <<cfg, parseVars, timeVars, schedVars, storeVars, dnsVars, ipChClosed, prodIdx,
                   wPc, wIp, wSuccess, wSrc, okMu, okIPs, seen, heap,
                   succeeded, probed, scanRejected, workerTokens>>


\* processDomain without the context check after collectIPs.
parentCancelledNever(d) == FALSE

\* processDomain returning without UpdateRecords also when collectIPs found
\* nothing.
parentCancelledOrEmpty(d) == groupCtxErr \/ okIPs[d].len = 0

\* processDomain checking collectIPs' own scope instead of its parent.
parentCancelledLocal(d) == domainCtxErr[d]

\* processDomain's `if ctx.Err() != nil`: ctx is the errgroup context.
parentCancelled(d) == groupCtxErr

\* processDomain after collectIPs: the context check, then the call of
\* h.UpdateRecords, which reads the clock before it asks for the lock.
processDomainCheck(d) ==
    /\ pdPc[d] = "check"
    /\ IF parentCancelled(d)
         THEN /\ pdPc' = [pdPc EXCEPT ![d] = "done"]
              /\ UNCHANGED <<urNow, clock, published>>
         ELSE /\ pdPc' = [pdPc EXCEPT ![d] = "urLock"]
              /\ urNow' = [urNow EXCEPT ![d] = clock]
              /\ clock' = clock + 1
              /\ published' =
                    MapSet(published, Key(d),
                           [prev |-> IF Key(d) \in DOMAIN published
                                       THEN published[Key(d)].cur ELSE <<>>,
                            prevAt |-> IF Key(d) \in DOMAIN published
                                         THEN published[Key(d)].at ELSE 0,
                            cur |-> Slice(okIPs[d]),
                            at |-> clock])
    /\ UNCHANGED <<cfg, parseVars, timeVars, schedVars, dnsVars, memory, updatedAt, rwWriter,
                   rwReaders, domainCtxErr, ipChClosed, prodPc, prodIdx, wPc,
                   wIp, wSuccess, wSrc, okMu, okIPs, seen, heap, succeeded,
                   probed, scanRejected, workerTokens>>

\* ------------------------------------------------------------- record store
\* A read path that does not take the lock.
CanRLockAlways == TRUE

\* A Lock that is granted while readers hold the lock.
CanLockBesideReaders == rwWriter = 0

\* sync.RWMutex: Lock needs no holder at all, RLock needs no writer.
CanLock == rwWriter = 0 /\ rwReaders = 0
CanRLock == rwWriter = 0

\* UpdateRecords: d.rwMux.Lock().
UpdateRecordsLock(d) ==
    /\ pdPc[d] = "urLock"
    /\ CanLock
    /\ rwWriter' = d
    /\ pdPc' = [pdPc EXCEPT ![d] = "urMemory"]
    /\ UNCHANGED <<cfg, parseVars, timeVars, schedVars, dnsVars, memory, updatedAt, rwReaders, clock,
                   urNow, published, domainCtxErr, ipChClosed, prodPc, prodIdx, wPc, wIp,
                   wSuccess, wSrc, okMu, okIPs, seen, heap, succeeded, probed, scanRejected,
                   workerTokens>>

\* UpdateRecords: d.memory[key] = records.  A slice header is several words;
\* the data pointer is stored first.  The array the entry held before is
\* garbage from here on.
UpdateRecordsMemory(d) ==
    /\ pdPc[d] = "urMemory"
    /\ memory' = MapSet(memory, Key(d),
                        [dom |-> d, arr |-> okIPs[d].arr,
                         len |-> IF Key(d) \in DOMAIN memory
                                   THEN memory[Key(d)].len ELSE 0])
    /\ heap' = [heap EXCEPT ![d] =
                  [a \in DOMAIN @ |->
                      IF a = okIPs[d].arr \/ (dnsRes.dom = d /\ dnsRes.arr = a)
                        THEN @[a] ELSE <<>>]]
    /\ pdPc' = [pdPc EXCEPT ![d] = "urLen"]
    /\ UNCHANGED <<cfg, parseVars, timeVars, schedVars, dnsVars, updatedAt, rwWriter, rwReaders,
                   clock, urNow, published, domainCtxErr, ipChClosed, prodPc, prodIdx, wPc,
                   wIp, wSuccess, wSrc, okMu, okIPs, seen, succeeded, probed, scanRejected,
                   workerTokens>>

\* An UpdateRecords that extends the entry instead of replacing it.
UpdateRecordsLenAppend(d) ==
    /\ pdPc[d] = "urLen"
    /\ memory' = [memory EXCEPT ![Key(d)].len = @ + okIPs[d].len]
    /\ pdPc' = [pdPc EXCEPT ![d] = "urUpdatedAt"]
    /\ UNCHANGED <<cfg, parseVars, timeVars, schedVars, dnsVars, updatedAt, rwWriter, rwReaders,
                   clock, urNow, published, domainCtxErr, ipChClosed, prodPc, prodIdx, wPc,
                   wIp, wSuccess, wSrc, okMu, okIPs, seen, heap, succeeded,
                   probed, scanRejected, workerTokens>>

\* UpdateRecords: the length word of d.memory[key] = records.
UpdateRecordsLen(d) ==
    /\ pdPc[d] = "urLen"
    /\ memory' = [memory EXCEPT ![Key(d)].len = okIPs[d].len]
    /\ pdPc' = [pdPc EXCEPT ![d] = "urUpdatedAt"]
    /\ UNCHANGED <<cfg, parseVars, timeVars, schedVars, dnsVars, updatedAt, rwWriter, rwReaders,
                   clock, urNow, published, domainCtxErr, ipChClosed, prodPc, prodIdx, wPc,
                   wIp, wSuccess, wSrc, okMu, okIPs, seen, heap, succeeded,
                   probed, scanRejected, workerTokens>>

\* UpdateRecords: d.updatedAt[key] = now (and the metrics gauges).
UpdateRecordsUpdatedAt(d) ==
    /\ pdPc[d] = "urUpdatedAt"
    /\ updatedAt' = MapSet(updatedAt, Key(d), urNow[d])
    /\ pdPc' = [pdPc EXCEPT ![d] = "urUnlock"]
    /\ UNCHANGED <<cfg, parseVars, timeVars, schedVars, dnsVars, memory, rwWriter, rwReaders, clock,
                   urNow, published, domainCtxErr, ipChClosed, prodPc, prodIdx, wPc, wIp,
                   wSuccess, wSrc, okMu, okIPs, seen, heap, succeeded, probed, scanRejected,
                   workerTokens>>

\* UpdateRecords: the deferred d.rwMux.Unlock(); processDomain returns nil.
UpdateRecordsUnlock(d) ==
    /\ pdPc[d] = "urUnlock"
    /\ rwWriter' = 0
    /\ pdPc' = [pdPc EXCEPT ![d] = "done"]
    /\ UNCHANGED <<cfg, parseVars, timeVars, schedVars, dnsVars, memory, updatedAt, rwReaders, clock,
                   urNow, published, domainCtxErr, ipChClosed, prodPc, prodIdx, wPc, wIp,
                   wSuccess, wSrc, okMu, okIPs, seen, heap, succeeded, probed, scanRejected,
                   workerTokens>>

\* ------------------------------------------------------------ DNS responder
Q(name, qtype, qclass) == [Name |-> name, Qtype |-> qtype, Qclass |-> qclass]

\* The requests the responder is run on: no question, an A/IN question for a
\* configured and for an unknown name, another type, another class, and a
\* request with a second question.
Requests ==
    {<<>>}
    \cup {<<Q(Key(d), "A", "IN")>> : d \in DomIdx}
    \cup {<<Q(Key(d), "AAAA", "IN")>> : d \in DomIdx}
    \cup {<<Q(Key(d), "A", "CH")>> : d \in DomIdx}
    \cup {<<Q("unknown.", "A", "IN")>>}
    \cup {<<Q(Key(d), "A", "IN"), Q("unknown.", "A", "IN")>> : d \in DomIdx}

\* Serve: ttl: uint32(cfg.UpdateInterval.Seconds()): the whole seconds of the
\* interval (the intervals of the model are far below 2^32 seconds).
HandlerTtl == cfg.UpdateInterval \div 1000

\* A reply whose header carries NXDOMAIN.
SetReplyNXDomain(r) == [Rcode |-> "NXDOMAIN", Question |-> r, Answer |-> <<>>]

\* msg.SetReply(r) of the dns library: a NOERROR response whose question
\* section is the first question of the request, if it has one, and whose
\* answer section is empty.
SetReply(r) ==
    [Rcode |-> "NOERROR",
     Question |-> IF Len(r) > 0 THEN <<r[1]>> ELSE <<>>,
     Answer |-> <<>>]

\* The dns.A record ServeDNS builds for one address.
RR(q, addr) ==
    [Name |-> q.Name, Rrtype |-> "A", Class |-> "IN", Ttl |-> HandlerTtl,
     A |-> addr]

\* What w.WriteMsg can return: nil, or an error when the connection of the
\* writer is broken.
WriteMsgResults == IF dnsWriter = "broken" THEN {"nil", "error"} ELSE {"nil"}

\* if err := w.WriteMsg(msg); err != nil { log } and another WriteMsg call
\* after a failed one.
WriteMsgRetry(msg) ==
    /\ dnsMsg' = msg
    /\ \E e \in WriteMsgResults :
          dnsWrites' = IF e = "error"
                         THEN dnsWrites \o <<e, e>>
                         ELSE Append(dnsWrites, e)

\* if err := w.WriteMsg(msg); err != nil { log }: one call whatever it
\* returns; the error is logged and dropped.
WriteMsg(msg) ==
    /\ dnsMsg' = msg
    /\ \E e \in WriteMsgResults : dnsWrites' = Append(dnsWrites, e)

\* ServeDNS up to d.rwMux.RLock(): the reply to a request without question
\* or with a first question that is not of type A is written at once.
ServeDNSBegin ==
    /\ dnsPc = "idle"
    /\ \E r \in Requests :
          /\ dnsReq' = r
          /\ IF Len(r) = 0 \/ r[1].Qtype # "A"
               THEN WriteMsg(SetReply(r)) /\ dnsPc' = "written"
               ELSE /\ dnsMsg' = <<>>
                    /\ dnsPc' = "rlock"
                    /\ UNCHANGED dnsWrites
    /\ UNCHANGED <<cfg, parseVars, timeVars, scanVars, schedVars, storeVars, dnsRes,
                   dnsWriter, snapVars>>

\* ServeDNS: d.rwMux.RLock().
ServeDNSRLock ==
    /\ dnsPc = "rlock"
    /\ CanRLock
    /\ rwReaders' = rwReaders + 1
    /\ dnsPc' = "lookup"
    /\ UNCHANGED <<cfg, parseVars, timeVars, scanVars, schedVars, dnsReq, dnsRes, dnsMsg,
                   dnsWriter, dnsWrites, memory, updatedAt, rwWriter, clock,
                   urNow, published, snapVars>>

\* ServeDNS: res, ok := d.memory[q.Name]; a miss writes the empty reply.
ServeDNSLookup ==
    /\ dnsPc = "lookup"
    /\ IF dnsReq[1].Name \in DOMAIN memory
         THEN /\ dnsRes' = memory[dnsReq[1].Name]
              /\ dnsPc' = "answer"
              /\ UNCHANGED <<dnsMsg, dnsWrites>>
         ELSE /\ WriteMsg(SetReply(dnsReq))
              /\ dnsPc' = "writtenLocked"
              /\ UNCHANGED dnsRes
    /\ UNCHANGED <<cfg, parseVars, timeVars, scanVars, schedVars, storeVars, dnsReq,
                   dnsWriter, snapVars>>

\* The answer loop starting at the second element.
AnswersSkipFirst(q, res) ==
    [i \in 1..(res.len - 1) |-> RR(q, Slice(res)[i + 1])]

\* for _, addr := range res: one A record per element, in order.
Answers(q, res) == [i \in 1..res.len |-> RR(q, Slice(res)[i])]

\* ServeDNS: the answer loop, then w.WriteMsg(msg).
ServeDNSAnswer ==
    /\ dnsPc = "answer"
    /\ WriteMsg([SetReply(dnsReq) EXCEPT !.Answer = Answers(dnsReq[1], dnsRes)])
    /\ dnsPc' = "writtenLocked"
    /\ UNCHANGED <<cfg, parseVars, timeVars, scanVars, schedVars, storeVars, dnsReq, dnsRes,
                   dnsWriter, snapVars>>

\* ServeDNS returns; the deferred RUnlock runs if the lock was taken.
ServeDNSReturn ==
    /\ dnsPc \in {"written", "writtenLocked"}
    /\ rwReaders' = IF dnsPc = "writtenLocked" THEN rwReaders - 1 ELSE rwReaders
    /\ dnsPc' = "idle"
    /\ dnsReq' = <<>>
    /\ dnsRes' = NoSlice
    /\ dnsMsg' = <<>>
    /\ dnsWrites' = <<>>
    /\ UNCHANGED <<cfg, parseVars, timeVars, scanVars, schedVars, memory, updatedAt, rwWriter, clock,
                   urNow, published, dnsWriter, snapVars>>

ServeDNS ==
    \/ ServeDNSBegin
    \/ ServeDNSRLock
    \/ ServeDNSLookup
    \/ ServeDNSAnswer
    \/ ServeDNSReturn

\* ------------------------------------------------------ status snapshot
\* The value of an element of a snapshot's IP list: its own bytes, or the
\* bytes of the store's array cell it shares.
SnapIP(c) ==
    IF c.ref = <<>>
      THEN c.ip
      ELSE IF c.ref[3] <= Len(heap[c.ref[1]][c.ref[2]])
             THEN heap[c.ref[1]][c.ref[2]][c.ref[3]]
             ELSE NoIP

\* A copy loop that stores the store's ip itself in copyRecords.
ipCopyShared(records, i) == [ref |-> <<records.dom, records.arr, i>>, ip |-> NoIP]

\* Snapshot: ipCopy := make(net.IP, len(ip)); copy(ipCopy, ip): bytes of its
\* own, equal to those of element i of records.
ipCopy(records, i) == [ref |-> <<>>, ip |-> Slice(records)[i]]

\* Snapshot: copyRecords, a new slice with one ipCopy per element of records.
copyRecords(records) == [i \in 1..records.len |-> ipCopy(records, i)]

\* Snapshot: d.rwMux.RLock() and result := make(map...).  The status handler
\* calls it while the status server serves.
SnapshotRLock ==
    /\ snapPc = "idle"
    /\ httpTask = "serving"
    /\ CanRLock
    /\ rwReaders' = rwReaders + 1
    /\ snapPc' = "range"
    /\ snapResult' = <<>>
    /\ UNCHANGED <<cfg, parseVars, timeVars, scanVars, schedVars, dnsPc, dnsReq, dnsRes, dnsMsg, dnsWriter, dnsWrites,
                   memory, updatedAt, rwWriter, clock, urNow, published,
                   snapCopy>>

\* Snapshot: the next key of `for key, records := range d.memory` and the
\* copy loop over its records.
SnapshotCopy ==
    /\ snapPc = "range"
    /\ \E k \in DOMAIN memory \ DOMAIN snapResult :
          snapCopy' = [key |-> k, IPs |-> copyRecords(memory[k])]
    /\ snapPc' = "entry"
    /\ UNCHANGED <<cfg, parseVars, timeVars, scanVars, schedVars, storeVars, dnsPc, dnsReq, dnsRes,
                   dnsMsg, dnsWriter, dnsWrites, snapResult>>

\* Snapshot: result[key] = recordSnapshot{copyRecords, d.updatedAt[key]}; a
\* missing timestamp reads as the zero time.
SnapshotEntry ==
    /\ snapPc = "entry"
    /\ snapResult' =
          MapSet(snapResult, snapCopy.key,
                 [IPs |-> snapCopy.IPs,
                  UpdatedAt |-> IF snapCopy.key \in DOMAIN updatedAt
                                  THEN updatedAt[snapCopy.key] ELSE 0])
    /\ snapCopy' = NoCopy
    /\ snapPc' = "range"
    /\ UNCHANGED <<cfg, parseVars, timeVars, scanVars, schedVars, storeVars, dnsPc, dnsReq, dnsRes,
                   dnsMsg, dnsWriter, dnsWrites>>

\* Snapshot: the range is exhausted, return result; the deferred RUnlock runs.
SnapshotReturn ==
    /\ snapPc = "range"
    /\ DOMAIN memory \subseteq DOMAIN snapResult
    /\ rwReaders' = rwReaders - 1
    /\ snapPc' = "returned"
    /\ UNCHANGED <<cfg, parseVars, timeVars, scanVars, schedVars, dnsPc, dnsReq, dnsRes, dnsMsg, dnsWriter, dnsWrites,
                   memory, updatedAt, rwWriter, clock, urNow, published,
                   snapCopy, snapResult>>

\* The caller of Snapshot writes to what it was given: it zeroes the bytes of
\* one IP of the result, or deletes a key of the result map.
SnapshotCallerWrite ==
    /\ snapPc = "returned"
    /\ \/ \E k \in DOMAIN snapResult : \E i \in DOMAIN snapResult[k].IPs :
             LET c == snapResult[k].IPs[i] IN
             /\ SnapIP(c).addr # 0
             /\ IF c.ref = <<>>
                  THEN /\ snapResult' = [snapResult EXCEPT ![k].IPs[i].ip.addr = 0]
                       /\ UNCHANGED heap
                  ELSE /\ heap' = [heap EXCEPT ![c.ref[1]][c.ref[2]][c.ref[3]].addr = 0]
                       /\ UNCHANGED snapResult
       \/ /\ \E k \in DOMAIN snapResult :
                snapResult' = [x \in DOMAIN snapResult \ {k} |-> snapResult[x]]
          /\ UNCHANGED heap
    /\ UNCHANGED <<cfg, parseVars, timeVars, schedVars, storeVars, dnsPc, dnsReq, dnsRes, dnsMsg, dnsWriter, dnsWrites,
                   snapPc, snapCopy, pdPc, domainCtxErr, ipChClosed, prodPc,
                   prodIdx, wPc, wIp, wSuccess, wSrc, okMu, okIPs, seen,
                   succeeded, probed, scanRejected, workerTokens>>

\* The status handler has encoded its response and drops the snapshot.
SnapshotDrop ==
    /\ snapPc = "returned"
    /\ snapPc' = "idle"
    /\ snapResult' = <<>>
    /\ UNCHANGED <<cfg, parseVars, timeVars, scanVars, schedVars, storeVars, dnsPc, dnsReq, dnsRes,
                   dnsMsg, dnsWriter, dnsWrites, snapCopy>>

Snapshot ==
    \/ SnapshotRLock
    \/ SnapshotCopy
    \/ SnapshotEntry
    \/ SnapshotReturn
    \/ SnapshotCallerWrite
    \/ SnapshotDrop

\* ------------------------------------------------------- the tasks of Serve
\* A goroutine of Serve's errgroup returns err: the group keeps the first
\* error it is given and cancels groupCtx.
groupGoError(err) ==
    /\ serveErr' = IF serveErr = "none" THEN err ELSE serveErr
    /\ cancelGroupCtx

\* dnsServer.Serve: ListenPacket returns the socket, or fails and its error is
\* returned.
dnsListen ==
    /\ dnsTask = "listen"
    /\ \/ /\ dnsTask' = "serving"
          /\ UNCHANGED <<cfg, parseVars, timeVars, scanVars, storeVars, dnsVars, ctxErr, groupCtxErr,
                         groupErr, updPc, cycle, timerArmed, timerC, updErr,
                         serveErr>>
       \/ /\ dnsTask' = "returned"
          /\ groupGoError("listen failed")
    /\ UNCHANGED <<serveCtxErr, httpTask, servePc>>

\* dnsServer.Serve: dns.ActivateAndServe serves the socket until reading from
\* it fails.  Its error is returned unless ctx is done, in which case nil is.
dnsServeError ==
    /\ dnsTask = "serving"
    /\ dnsTask' = "returned"
    /\ IF ctxErr
         THEN UNCHANGED <<cfg, parseVars, timeVars, scanVars, storeVars, dnsVars, ctxErr, groupCtxErr,
                          groupErr, updPc, cycle, timerArmed, timerC, updErr,
                          serveErr>>
         ELSE groupGoError("serve failed")
    /\ UNCHANGED <<serveCtxErr, httpTask, servePc>>

\* serveHTTP: ctx is done, the helper goroutine calls server.Shutdown,
\* ListenAndServe returns http.ErrServerClosed and serveHTTP returns nil.
serveHTTPShutdown ==
    /\ httpTask = "serving"
    /\ ctxErr
    /\ httpTask' = "returned"
    /\ UNCHANGED <<cfg, parseVars, timeVars, scanVars, storeVars, dnsVars, ctxErr, groupCtxErr,
                   groupErr, updPc, cycle, timerArmed, timerC, updErr,
                   serveCtxErr, dnsTask, serveErr, servePc>>

\* serveHTTP: ListenAndServe fails with another error, which is returned.
serveHTTPError ==
    /\ httpTask = "serving"
    /\ httpTask' = "returned"
    /\ groupGoError("http failed")
    /\ UNCHANGED <<serveCtxErr, dnsTask, servePc>>

\* Serve: group.Wait() returns once every goroutine of the group has, Serve
\* returns the group's error, and the deferred timer.Stop() and cancel() run.
ServeReturn ==
    /\ servePc = "waiting"
    /\ updPc = "returned"
    /\ dnsTask = "returned"
    /\ httpTask \in {"none", "returned"}
    /\ servePc' = "returned"
    /\ timerArmed' = FALSE
    /\ ctxErr' = TRUE
    /\ UNCHANGED <<cfg, parseVars, timeVars, scanVars, storeVars, dnsVars, groupCtxErr, groupErr,
                   updPc, cycle, timerC, updErr, serveCtxErr, dnsTask, httpTask,
                   serveErr>>

\* ----------------------------------------------------- Parse and Validate
\* RunE: config.Parse(ctx, &cfg, configFile, args).
ParseCall ==
    /\ parseOut = NoOutput
    /\ parseOut' = Parse(parseIn)
    /\ UNCHANGED <<cfg, timeVars, scanVars, schedVars, storeVars, dnsVars, parseIn,
                   validateOut>>

\* cfg.Validate() on the configuration Parse filled in; the value returned
\* is the set of its errors, wrapped to tell it from "not called".
ConfigValidate ==
    /\ parseOut # NoOutput
    /\ parseOut.err = "nil"
    /\ validateOut = <<>>
    /\ validateOut' = <<Validate(parseOut.dst)>>
    /\ UNCHANGED <<cfg, timeVars, scanVars, schedVars, storeVars, dnsVars, parseIn,
                   parseOut>>

\* ------------------------------------------------------------ specification
Next ==
    \/ ServeFirstUpdate
    \/ ServeTickUpdate
    \/ TimerFire
    \/ recordUpdaterReturn
    \/ CancelCtx
    \/ \E d \in DomIdx : processDomainStart(d)
    \/ \E d \in DomIdx : \E p \in Producers(d) : sendIP(d, p)
    \/ \E d \in DomIdx : closeIpCh(d)
    \/ \E d \in DomIdx : \E w \in Workers(d) : recvIP(d, w)
    \/ \E d \in DomIdx : \E w \in Workers(d) : acquireToken(d, w)
    \/ \E d \in DomIdx : \E w \in Workers(d) : runScan(d, w)
    \/ \E d \in DomIdx : \E w \in Workers(d) : releaseToken(d, w)
    \/ \E d \in DomIdx : \E w \in Workers(d) : recordScanResult(d, w)
    \/ \E d \in DomIdx : \E w \in Workers(d) : acceptIPLock(d, w)
    \/ \E d \in DomIdx : \E w \in Workers(d) : acceptIP(d, w)
    \/ \E d \in DomIdx : collectIPsReturn(d)
    \/ \E d \in DomIdx : processDomainCheck(d)
    \/ \E d \in DomIdx : UpdateRecordsLock(d)
    \/ \E d \in DomIdx : UpdateRecordsMemory(d)
    \/ \E d \in DomIdx : UpdateRecordsLen(d)
    \/ \E d \in DomIdx : UpdateRecordsUpdatedAt(d)
    \/ \E d \in DomIdx : UpdateRecordsUnlock(d)

InitScan ==
    /\ Init
    /\ cfg \in Configs
    /\ parseIn = NoInput
    /\ dnsWriter = "ok"

Spec == InitScan /\ [][Next]_vars

\* The whole server on the small configuration: scheduler, pipeline and a
\* concurrent ServeDNS invocation.
InitServe ==
    /\ Init
    /\ cfg \in ServeConfigs
    /\ parseIn = NoInput
    /\ dnsWriter = "ok"

NextServe == Next \/ ServeDNS

SpecServe == InitServe /\ [][NextServe]_vars

\* The same on domains whose cycles find nothing.
InitEmpty ==
    /\ Init
    /\ cfg \in EmptyConfigs
    /\ parseIn = NoInput
    /\ dnsWriter = "ok"

SpecEmpty == InitEmpty /\ [][NextServe]_vars

\* The same beside a listener whose writes can fail.
InitReply ==
    /\ Init
    /\ cfg \in ServeConfigs
    /\ parseIn = NoInput

SpecReply == InitReply /\ [][NextServe]_vars

\* The record store with its writer and both of its readers: the scan cycles,
\* a ServeDNS invocation and the status handler's Snapshot.
InitStore ==
    /\ Init
    /\ cfg \in StoreConfigs
    /\ parseIn = NoInput
    /\ dnsWriter = "ok"

NextStore == Next \/ ServeDNS \/ Snapshot

SpecStore == InitStore /\ [][NextStore]_vars

\* Parse and Validate on the files and args of ParseInputs.
InitParse ==
    /\ Init
    /\ cfg \in StoreConfigs
    /\ parseIn \in ParseInputs
    /\ dnsWriter = "ok"

NextParse == ParseCall \/ ConfigValidate

SpecParse == InitParse /\ [][NextParse]_vars

\* The steps the scheduler and the pipeline take by themselves: every step of
\* Next but the cancellation of Serve's context, which comes from outside.
SchedStep ==
    \/ ServeFirstUpdate
    \/ ServeTickUpdate
    \/ TimerFire
    \/ recordUpdaterReturn
    \/ \E d \in DomIdx : processDomainStart(d)
    \/ \E d \in DomIdx : \E p \in Producers(d) : sendIP(d, p)
    \/ \E d \in DomIdx : closeIpCh(d)
    \/ \E d \in DomIdx : \E w \in Workers(d) : recvIP(d, w)
    \/ \E d \in DomIdx : \E w \in Workers(d) : acquireToken(d, w)
    \/ \E d \in DomIdx : \E w \in Workers(d) : runScan(d, w)
    \/ \E d \in DomIdx : \E w \in Workers(d) : releaseToken(d, w)
    \/ \E d \in DomIdx : \E w \in Workers(d) : recordScanResult(d, w)
    \/ \E d \in DomIdx : \E w \in Workers(d) : acceptIPLock(d, w)
    \/ \E d \in DomIdx : \E w \in Workers(d) : acceptIP(d, w)
    \/ \E d \in DomIdx : collectIPsReturn(d)
    \/ \E d \in DomIdx : processDomainCheck(d)
    \/ \E d \in DomIdx : UpdateRecordsLock(d)
    \/ \E d \in DomIdx : UpdateRecordsMemory(d)
    \/ \E d \in DomIdx : UpdateRecordsLen(d)
    \/ \E d \in DomIdx : UpdateRecordsUpdatedAt(d)
    \/ \E d \in DomIdx : UpdateRecordsUnlock(d)

\* The scheduler and the pipeline under the scheduling the Go runtime gives:
\* goroutines that can take a step are scheduled, the timer fires and a
\* started probe returns.  Nothing is assumed about the cancellation.
InitFair ==
    /\ Init
    /\ cfg \in FairConfigs
    /\ parseIn = NoInput
    /\ dnsWriter = "ok"

SpecFair == InitFair /\ [][Next]_vars /\ WF_vars(SchedStep)

\* The pipeline on domains with fewer and with more CIDRs than tokens.
InitWorkers ==
    /\ Init
    /\ cfg \in WorkerConfigs
    /\ parseIn = NoInput
    /\ dnsWriter = "ok"

SpecWorkers == InitWorkers /\ [][Next]_vars

\* The scheduler and the pipeline with the time their steps take.
InitTime ==
    /\ Init
    /\ cfg \in TimeConfigs
    /\ parseIn = NoInput
    /\ dnsWriter = "ok"

NextTime == Next \/ TimePasses

SpecTime == InitTime /\ [][NextTime]_vars

\* Failing probes under the same scheduling.
InitProbe ==
    /\ Init
    /\ cfg \in ProbeConfigs
    /\ parseIn = NoInput
    /\ dnsWriter = "ok"

SpecProbe == InitProbe /\ [][Next]_vars /\ WF_vars(SchedStep)

\* Two domains competing for one token, under the same scheduling.
InitCompete ==
    /\ Init
    /\ cfg \in CompeteConfigs
    /\ parseIn = NoInput
    /\ dnsWriter = "ok"

SpecCompete == InitCompete /\ [][Next]_vars /\ WF_vars(SchedStep)

\* The lock of the record store with two writers and both readers, in runs
\* in which nobody cancels Serve's context.
InitLock ==
    /\ Init
    /\ cfg \in LockConfigs
    /\ parseIn = NoInput
    /\ dnsWriter = "ok"

NextLock == SchedStep \/ ServeDNS \/ Snapshot

SpecLock == InitLock /\ [][NextLock]_vars

\* The steps the tasks of Serve take by themselves; the failures of the
\* sockets come from outside.
ProgramStep ==
    \/ SchedStep
    \/ dnsListen
    \/ serveHTTPShutdown
    \/ ServeReturn

\* The whole of Serve: the listener and the status server beside the
\* scheduler, under the same scheduling; nothing is assumed about the
\* cancellation of Serve's context or about failures of the sockets.
InitTasks ==
    /\ Init
    /\ cfg \in TaskConfigs
    /\ parseIn = NoInput
    /\ dnsWriter = "ok"

NextTasks ==
    \/ Next
    \/ dnsListen
    \/ dnsServeError
    \/ serveHTTPShutdown
    \/ serveHTTPError
    \/ ServeReturn

SpecTasks == InitTasks /\ [][NextTasks]_vars /\ WF_vars(ProgramStep)


\* =================================================================== claims
\* No two elements of l are the same address.
Distinct(l) ==
    \A i \in DOMAIN l : \A j \in DOMAIN l :
        i # j => IPString(l[i]) # IPString(l[j])

\* The addresses of a list, as the set of their String() values.
Addrs(l) == {IPString(l[i]) : i \in DOMAIN l}

\* processDomain is inside h.UpdateRecords.
InUpdateRecords(d) ==
    pdPc[d] \in {"urLock", "urMemory", "urLen", "urUpdatedAt", "urUnlock"}

\* Every candidate the samplers of domain d emit.
AllCandidates(d) ==
    UNION {{<<p, i>> : i \in DOMAIN Samples(d)[p]} : p \in Producers(d)}

\* Workers whose ExecuteIP is in progress.
InFlight ==
    {x \in UNION {{<<d, w>> : w \in Workers(d)} : d \in DomIdx} :
        wPc[x[1]][x[2]] = "scan"}

\* C1: in every state of a cycle, hence also when the list is handed to
\* UpdateRecords and once it is in the store, the survivor list of a domain
\* has at most Limit(d) elements and no two of them are the same address.
C1_LimitAndDistinct ==
    /\ \A d \in DomIdx :
          /\ okIPs[d].len <= Limit(d)
          /\ Distinct(Slice(okIPs[d]))
    /\ \A k \in DOMAIN memory :
          rwWriter = 0 =>
             /\ memory[k].len <= Limit(memory[k].dom)
             /\ Distinct(Slice(memory[k]))

\* C1 witness: a full list of two survivors is handed to UpdateRecords after
\* both CIDRs offered the same address.
C1_Witness ==
    \E d \in DomIdx :
        /\ pdPc[d] = "urLock"
        /\ okIPs[d].len = Limit(d)
        /\ Limit(d) = 2
        /\ probed[d] = AllCandidates(d)
        /\ Cardinality(AllCandidates(d)) > 2

\* C2: every address of the list handed to UpdateRecords, and of the entry
\* this cycle stored, was reported successful by ExecuteIP in this cycle.
C2_OnlyThisCyclesSuccesses ==
    \A d \in DomIdx :
        /\ Scanning(d) => Addrs(Slice(okIPs[d])) \subseteq succeeded[d]
        /\ (pdPc[d] \in {"urUpdatedAt", "urUnlock", "done"}
              /\ Key(d) \in DOMAIN memory
              /\ memory[Key(d)].arr = cycle)
             => Addrs(Slice(memory[Key(d)])) \subseteq succeeded[d]

\* C2 witness: a second cycle has published while a candidate of that cycle
\* failed its probe.
C2_Witness ==
    \E d \in DomIdx :
        /\ cycle = 2
        /\ pdPc[d] = "done"
        /\ Key(d) \in DOMAIN memory
        /\ memory[Key(d)].arr = cycle
        /\ memory[Key(d)].len > 0
        /\ \E c \in probed[d] :
              IPString(Samples(d)[c[1]][c[2]]) \notin succeeded[d]

\* C3: the number of ExecuteIP calls in progress, over all domains, never
\* exceeds the normalised max_workers.
C3_InFlightBound ==
    /\ Cardinality(InFlight) <= TokenCap
    /\ workerTokens <= TokenCap

\* C3 witness: the budget is exhausted by one domain while a worker of another
\* domain waits for a token.
C3_Witness ==
    /\ Cardinality(InFlight) = TokenCap
    /\ \E x \in InFlight : \E y \in ParkedAcquirers : x[1] # y[1]


\* The store's entry for the name of domain d: the answer set and its time.
StoreEntry(d) ==
    <<IF Key(d) \in DOMAIN memory THEN <<memory[Key(d)]>> ELSE <<>>,
      IF Key(d) \in DOMAIN updatedAt THEN <<updatedAt[Key(d)]>> ELSE <<>>>>

\* The list a lookup of the name of domain d returns, if any.
Visible(d) == IF Key(d) \in DOMAIN memory THEN <<Slice(memory[Key(d)])>> ELSE <<>>

\* C4 as stated: once the parent context of a running cycle is cancelled, the
\* cycle does not change the store entry of its domain any more.
C4_NoPublishOnceCancelled ==
    [][\A d \in DomIdx :
          (groupCtxErr /\ pdPc[d] \notin {"idle", "done"})
             => StoreEntry(d)' = StoreEntry(d)]_vars

\* C4 amended: a cycle whose parent context is cancelled before processDomain
\* has passed its context check never enters UpdateRecords and leaves the
\* store entry of its domain as it was.
C4_NoPublishIfCancelledByCheck ==
    [][\A d \in DomIdx :
          (groupCtxErr /\ pdPc[d] \in {"start", "wait", "check"})
             => /\ groupCtxErr'
                /\ pdPc'[d] \in {"start", "wait", "check", "done"}
                /\ StoreEntry(d)' = StoreEntry(d)]_vars

\* C4 witness: a cycle cancelled by its parent ended with survivors in its
\* list and without having published them.
C4_Witness ==
    \E d \in DomIdx :
        /\ ctxErr
        /\ pdPc[d] = "done"
        /\ okIPs[d].arr = cycle
        /\ okIPs[d].len > 0
        /\ (Key(d) \notin DOMAIN memory \/ memory[Key(d)].arr # cycle)

\* The addresses of the answer section of the reply ServeDNS wrote.
AnswerIPs == [i \in DOMAIN dnsMsg.Answer |-> dnsMsg.Answer[i].A]

\* C5: the answers of a lookup are the complete list of the last UpdateRecords
\* call for that name or the complete list of the call before it.
C5_NoTornRead ==
    (dnsPc = "writtenLocked" /\ dnsReq[1].Name \in DOMAIN published)
       => \/ AnswerIPs = published[dnsReq[1].Name].cur
          \/ AnswerIPs = published[dnsReq[1].Name].prev

\* C5 witness: a lookup answered with the complete previous list while an
\* UpdateRecords call with another list waits for the lock.
C5_Witness ==
    /\ dnsPc = "writtenLocked"
    /\ dnsReq[1].Name \in DOMAIN published
    /\ \E d \in DomIdx :
          /\ Key(d) = dnsReq[1].Name
          /\ pdPc[d] = "urLock"
    /\ AnswerIPs = published[dnsReq[1].Name].prev
    /\ Len(published[dnsReq[1].Name].prev) # Len(published[dnsReq[1].Name].cur)
    /\ AnswerIPs # <<>>

\* C6: the store holds the list of a cycle only when every worker of that
\* cycle has returned, and the list a lookup returns changes only in the
\* store's write of an UpdateRecords call for that name.
C6_PublishedAfterWorkersAndStable ==
    /\ [](\A d \in DomIdx :
            (Key(d) \in DOMAIN memory /\ memory[Key(d)].arr = okIPs[d].arr)
               => /\ workersDone(d)
                  /\ pdPc[d] \notin {"wait", "check", "urLock"})
    /\ [][\A d \in DomIdx :
            Visible(d)' # Visible(d)
               => rwWriter = d /\ pdPc[d] \in {"urMemory", "urLen"}]_vars

\* C6 witness: in a second cycle a survivor is admitted while the store still
\* serves the list of the first cycle.
C6_Witness ==
    \E d \in DomIdx :
        /\ cycle = 2
        /\ pdPc[d] = "wait"
        /\ okIPs[d].len > 0
        /\ Key(d) \in DOMAIN memory
        /\ memory[Key(d)].arr = 1
        /\ memory[Key(d)].len > 0

\* C7: a cycle that reached its limit and whose parent context is not
\* cancelled has stored its whole list of Limit(d) distinct addresses.
C7_LimitReachedIsPublished ==
    \A d \in DomIdx :
        (/\ pdPc[d] = "done"
         /\ ~groupCtxErr
         /\ okIPs[d].arr = cycle
         /\ okIPs[d].len = Limit(d))
           => /\ Key(d) \in DOMAIN memory
              /\ memory[Key(d)] = okIPs[d]
              /\ Len(Slice(memory[Key(d)])) = Limit(d)
              /\ Distinct(Slice(memory[Key(d)]))

\* C7 witness: a cycle with limit 2 has ended after acceptIP cancelled its
\* scope, the parent context being live, and a candidate was never probed.
C7_Witness ==
    \E d \in DomIdx :
        /\ pdPc[d] = "done"
        /\ ~groupCtxErr
        /\ okIPs[d].arr = cycle
        /\ okIPs[d].len = Limit(d)
        /\ Limit(d) = 2
        /\ probed[d] # AllCandidates(d)

\* C8: a cycle that published while fewer than Limit(d) distinct addresses
\* passed the probe has probed every candidate and stored exactly one entry
\* per address that passed.
C8_FewerThanLimit ==
    \A d \in DomIdx :
        (/\ pdPc[d] = "done"
         /\ okIPs[d].arr = cycle
         /\ Key(d) \in DOMAIN memory
         /\ memory[Key(d)].arr = cycle
         /\ Cardinality(succeeded[d]) < Limit(d))
           => /\ probed[d] = AllCandidates(d)
              /\ memory[Key(d)].len = Cardinality(succeeded[d])
              /\ Addrs(Slice(memory[Key(d)])) = succeeded[d]

\* C8 witness: with limit 3 a cycle published one address, which two CIDRs
\* had both offered, after probing all four candidates.
C8_Witness ==
    \E d \in DomIdx :
        /\ pdPc[d] = "done"
        /\ Key(d) \in DOMAIN memory
        /\ memory[Key(d)].arr = cycle
        /\ Limit(d) = 3
        /\ memory[Key(d)].len = 1
        /\ Cardinality(probed[d]) = 4

\* The scope of domain d was cancelled because the limit was reached.
LimitReached(d) == Scanning(d) /\ okIPs[d].len = Limit(d)

\* C9 as stated: once the limit is reached no worker of the cycle starts an
\* ExecuteIP call.
C9_NoProbeAfterLimit ==
    [][\A d \in DomIdx : \A w \in Workers(d) :
          (LimitReached(d) /\ wPc'[d][w] = "scan") => wPc[d][w] = "scan"]_vars

\* C9 amended: once the limit is reached no worker receives another
\* candidate, no worker is left waiting for a candidate or for a token, and an
\* ExecuteIP call is started only by a worker that already held its candidate
\* and had not begun to wait for a token.
C9_NoNewCandidateAfterLimit ==
    [][\A d \in DomIdx :
          LimitReached(d)
             => /\ prodIdx'[d] = prodIdx[d]
                /\ \A w \in Workers(d) :
                      /\ wPc[d][w] \notin {"recvParked", "acquireParked"}
                      /\ wPc'[d][w] = "acquire" => wPc[d][w] = "acquire"
                      /\ (wPc'[d][w] = "scan" /\ wPc[d][w] # "scan")
                            => wPc[d][w] = "acquire"]_vars

\* C9 witness: the limit was reached, every worker has returned and a
\* candidate of the samplers was never probed.
C9_Witness ==
    \E d \in DomIdx :
        /\ LimitReached(d)
        /\ workersDone(d)
        /\ probed[d] # AllCandidates(d)
        /\ \E w \in Workers(d) : wSrc[d][w] \notin probed[d] \cup {<<0, 0>>}

\* C10: the reply to an A query for a name with a store entry has one A
\* record per address of the entry, in the entry's order, each with the
\* queried name and class IN.
C10_AnswersArePublishedList ==
    (dnsPc = "writtenLocked" /\ dnsReq[1].Name \in DOMAIN memory)
       => /\ Len(dnsMsg.Answer) = memory[dnsReq[1].Name].len
          /\ \A i \in 1..Len(dnsMsg.Answer) :
                /\ dnsMsg.Answer[i].A = Slice(memory[dnsReq[1].Name])[i]
                /\ dnsMsg.Answer[i].Name = dnsReq[1].Name
                /\ dnsMsg.Answer[i].Class = "IN"
                /\ dnsMsg.Answer[i].Rrtype = "A"

\* C10 witness: a reply with two A records has been written.
C10_Witness ==
    /\ dnsPc = "writtenLocked"
    /\ dnsReq[1].Name \in DOMAIN memory
    /\ Len(dnsMsg.Answer) = 2
    /\ dnsMsg.Answer[1].A # dnsMsg.Answer[2].A

\* The reply ServeDNS has written for the request in dnsReq.
Replied == dnsPc \in {"written", "writtenLocked"}

\* C11 as stated: a reply has a non-empty answer section only if the first
\* question of the request has QTYPE A and QCLASS IN.
C11_OnlyAINAnswered ==
    (Replied /\ dnsMsg.Answer # <<>>)
       => /\ Len(dnsReq) > 0
          /\ dnsReq[1].Qtype = "A"
          /\ dnsReq[1].Qclass = "IN"

\* C12: an A query for a name without store entry is answered NOERROR with
\* zero answers, and no step of ServeDNS changes the store.
C12_MissIsEmptyNoError ==
    /\ []((dnsPc = "writtenLocked" /\ dnsReq[1].Name \notin DOMAIN memory)
            => /\ dnsMsg.Rcode = "NOERROR"
               /\ dnsMsg.Answer = <<>>
               /\ dnsMsg.Question = <<dnsReq[1]>>)
    /\ [][dnsPc' # dnsPc => (memory' = memory /\ updatedAt' = updatedAt)]_vars

\* C12 witness: the reply to an A query for a name that was never configured
\* has been written while the store holds an entry for another name.
C12_Witness ==
    /\ dnsPc = "writtenLocked"
    /\ dnsReq[1].Name \notin DOMAIN memory
    /\ dnsReq[1].Qtype = "A"
    /\ DOMAIN memory # {}

\* max(1, floor(interval in seconds)), the interval given in milliseconds.
MinOneTtl(ms) == IF ms \div 1000 < 1 THEN 1 ELSE ms \div 1000

\* C13 as stated: every A record of a reply carries the TTL
\* max(1, floor(update_interval in seconds)), which is never 0.
C13_TtlAtLeastOne ==
    Replied =>
       \A i \in DOMAIN dnsMsg.Answer :
          /\ dnsMsg.Answer[i].Ttl = MinOneTtl(cfg.UpdateInterval)
          /\ dnsMsg.Answer[i].Ttl # 0

\* C14: the scheduler's first recordUpdater call needs no timer tick: it can
\* be taken in every state in which it has not been taken, it starts
\* processDomain for every configured domain, it leaves the timer alone, and
\* no cycle is started before it.
C14_FirstCycleAtStartup ==
    /\ [](updPc = "first" => (cycle = 0 /\ ENABLED ServeFirstUpdate))
    /\ [][updPc = "first" /\ updPc' # "first"
            => /\ cycle' = 1
               /\ \A d \in DomIdx : pdPc'[d] = "start"
               /\ timerC' = timerC
               /\ timerArmed' = timerArmed]_vars

\* C14 witness: both domains of the first cycle are scanning, a probe has
\* been started, and the timer has not fired yet.
C14_Witness ==
    /\ cycle = 1
    /\ timerArmed
    /\ timerC = 0
    /\ Cardinality(DomIdx) = 2
    /\ \A d \in DomIdx : pdPc[d] = "wait"
    /\ \E d \in DomIdx : probed[d] # {}

\* A processDomain goroutine of the current group has not returned.
Running(d) == pdPc[d] \notin {"idle", "done"}

\* C15: a recordUpdater call starts only when no processDomain of the
\* previous call is still running, it starts processDomain for all domains
\* together, and the scheduler is inside recordUpdater whenever one runs.
C15_OneGroupAtATime ==
    /\ [](\A d \in DomIdx : Running(d) => updPc \in {"running0", "running"})
    /\ [][cycle' # cycle
            => /\ \A d \in DomIdx : ~Running(d) /\ workersDone(d)
               /\ \A d \in DomIdx : pdPc'[d] = "start"]_vars

\* C15 witness: in the second group both domains have workers at work at the
\* same time, the tick that started it having waited for the first group.
C15_Witness ==
    /\ cycle = 2
    /\ Cardinality(DomIdx) = 2
    /\ \A d \in DomIdx :
          /\ pdPc[d] = "wait"
          /\ \E w \in Workers(d) :
                wPc[d][w] \in {"acquire", "acquireParked", "scan", "release"}

\* C16: whenever a refresh cycle has completed without error and the context
\* is live, the context is cancelled or the next tick is delivered and starts
\* the next cycle; of the ticks only the one after the last cycle the model
\* runs is left in timer.C.
C16_NextCycleStarts ==
    (updPc = "waitTick" /\ ~ctxErr)
       ~> \/ ctxErr
          \/ updPc = "running"
          \/ (timerC = 1 /\ cycle >= MaxCycles)

\* C16 witness: the cycle started by a tick has completed, its timer.Reset
\* has run and the timer has fired again.
C16_Witness ==
    /\ updPc = "waitTick"
    /\ cycle = 2
    /\ ~ctxErr
    /\ timerC = 1
    /\ "a." \in DOMAIN memory
\* C17 as stated, for the scheduler: once the context passed to Serve is
\* cancelled the scheduler does not wait for the next tick, so the only step
\* it takes out of its wait is its return, never the receipt of a tick and
\* another recordUpdater call.
C17_SchedulerExitsOnCancel ==
    [][(serveCtxErr /\ updPc = "waitTick")
          => updPc' \in {"waitTick", "returned"}]_vars
\* C18: once the parent context of a running cycle is cancelled, every
\* producer and every worker of the cycle returns, the supervisor closes the
\* channel and collectIPs returns.
C18_CancelUnblocksPipeline ==
    (\E d \in DomIdx : groupCtxErr /\ pdPc[d] = "wait")
       ~> (\A d \in DomIdx :
              /\ pdPc[d] # "wait"
              /\ workersDone(d)
              /\ \A p \in Producers(d) : prodPc[d][p] = "done"
              /\ ipChClosed[d])

\* C18 witness: after a cancellation of Serve's context collectIPs has
\* returned below the limit; a worker gave up the candidate it held without
\* probing it and a producer gave up a candidate it could not send.
C18_Witness ==
    \E d \in DomIdx :
        /\ serveCtxErr
        /\ pdPc[d] = "done"
        /\ okIPs[d].len < Limit(d)
        /\ ipChClosed[d]
        /\ \A p \in Producers(d) : prodPc[d][p] = "done"
        /\ \E w \in Workers(d) : wSrc[d][w] \notin probed[d] \cup {<<0, 0>>}
        /\ \E p \in Producers(d) : prodIdx[d][p] <= Len(Samples(d)[p])
\* C19: a domain whose BuildVM or ReadCIDRsSamples fails starts no probe and
\* never writes the store; its error is recorded and cancels the group
\* context; a sibling that is still scanning then does not publish; and
\* recordUpdater returns that error, also when the context was cancelled.
C19_BuildFailure ==
    /\ [](\A d \in DomIdx :
            cfg.Domains[d].buildErr
               => /\ probed[d] = {}
                  /\ okIPs[d] = NoSlice
                  /\ ~InUpdateRecords(d)
                  /\ \A k \in DOMAIN memory : memory[k].dom # d
                  /\ pdPc[d] = "done" => (groupErr = "build failed" /\ groupCtxErr))
    /\ []((updPc = "returned" /\ groupErr # "none") => updErr = groupErr)
    /\ [][\A e \in DomIdx :
            (groupErr # "none" /\ pdPc[e] \in {"start", "wait", "check"})
               => /\ pdPc'[e] \in {"start", "wait", "check", "done"}
                  /\ StoreEntry(e)' = StoreEntry(e)]_vars

\* C19 witness: recordUpdater has returned the BuildVM error of one domain
\* after the context was cancelled too, and the sibling domain, which had
\* admitted a survivor, has published nothing.
C19_Witness ==
    /\ updPc = "returned"
    /\ updErr = "build failed"
    /\ serveCtxErr
    /\ \E d \in DomIdx : cfg.Domains[d].buildErr
    /\ \E e \in DomIdx :
          /\ ~cfg.Domains[e].buildErr
          /\ pdPc[e] = "done"
          /\ okIPs[e].arr = cycle
          /\ okIPs[e].len > 0
          /\ Key(e) \notin DOMAIN memory
\* C20 as stated: when the scheduler has returned the error of a refresh
\* cycle, Serve returns that error and does not block: as long as Serve has
\* not returned, some task of Serve can take a step towards it, and when it
\* has returned, its result is the first error its group was given.
C20_ServeReturnsSchedulerError ==
    (updPc = "returned" /\ updErr # "none")
       => /\ servePc # "returned" => ENABLED ProgramStep
          /\ servePc = "returned" => serveErr # "none"
\* C21: an UpdateRecords call with the list the previous call for the same
\* name published leaves what a lookup of that name returns as it is at every
\* step, and a step changes the entry or the timestamp of a name only inside
\* the critical section of an UpdateRecords call for that name.
C21_RepublishSameList ==
    /\ [][\A d \in DomIdx :
            (/\ InUpdateRecords(d)
             /\ Key(d) \in DOMAIN memory
             /\ published[Key(d)].prev = published[Key(d)].cur)
               => Visible(d)' = Visible(d)]_vars
    /\ [][\A d \in DomIdx :
            StoreEntry(d)' # StoreEntry(d)
               => \E e \in DomIdx : Key(e) = Key(d) /\ rwWriter = e]_vars

\* C21 witness: the second cycle has published the same two addresses as the
\* first one, with a later timestamp.
C21_Witness ==
    \E d \in DomIdx :
        /\ cycle = 2
        /\ pdPc[d] = "done"
        /\ memory[Key(d)].arr = 2
        /\ published[Key(d)].prev = published[Key(d)].cur
        /\ Len(published[Key(d)].cur) = 2
        /\ updatedAt[Key(d)] > 1
\* What a snapshot's holder reads from it, and what the store holds.
SnapValue ==
    [k \in DOMAIN snapResult |->
        [IPs |-> [i \in DOMAIN snapResult[k].IPs |-> SnapIP(snapResult[k].IPs[i])],
         UpdatedAt |-> snapResult[k].UpdatedAt]]
StoreView ==
    [k \in DOMAIN memory |->
        [IPs |-> Slice(memory[k]),
         UpdatedAt |-> IF k \in DOMAIN updatedAt THEN updatedAt[k] ELSE 0]]

\* Snapshot has copied every entry and is about to return.
SnapshotComplete == snapPc = "range" /\ DOMAIN memory \subseteq DOMAIN snapResult

\* C22: Snapshot holds the read lock from its first read to its return; what
\* it returns has exactly the names of the store, each with the list and the
\* timestamp of one and the same UpdateRecords call (the last or the one
\* before it); a write of the caller to the returned value leaves the store
\* as it is, and no other step changes a returned snapshot.
C22_SnapshotIsDeepCopy ==
    /\ [](snapPc \in {"range", "entry"} => rwReaders >= 1 /\ rwWriter = 0)
    /\ [](SnapshotComplete =>
             /\ SnapValue = StoreView
             /\ \A k \in DOMAIN snapResult :
                   \/ /\ SnapValue[k].IPs = published[k].cur
                      /\ SnapValue[k].UpdatedAt = published[k].at
                   \/ /\ SnapValue[k].IPs = published[k].prev
                      /\ SnapValue[k].UpdatedAt = published[k].prevAt
                      /\ published[k].prevAt > 0)
    /\ [][SnapshotCallerWrite => StoreView' = StoreView]_vars
    /\ [][(snapPc = "returned" /\ snapPc' = "returned" /\ ~SnapshotCallerWrite)
            => SnapValue' = SnapValue]_vars

\* C22 witness: the caller holds a snapshot with two addresses and has zeroed
\* the first one, while the store has a later publication with one address
\* that is still intact.
C22_Witness ==
    /\ snapPc = "returned"
    /\ \E k \in DOMAIN snapResult :
          /\ Len(SnapValue[k].IPs) = 2
          /\ SnapValue[k].IPs[1].addr = 0
          /\ rwWriter = 0
          /\ StoreView[k].UpdatedAt > SnapValue[k].UpdatedAt
          /\ Len(StoreView[k].IPs) = 1
          /\ StoreView[k].IPs[1].addr # 0
\* The UpdateRecords calls, and the number of ServeDNS and Snapshot calls,
\* that are between the acquisition and the release of the store's lock.
Writers == {d \in DomIdx : pdPc[d] \in {"urMemory", "urLen", "urUpdatedAt", "urUnlock"}}
ReadersInside ==
    (IF dnsPc \in {"lookup", "answer", "writtenLocked"} THEN 1 ELSE 0)
      + (IF snapPc \in {"range", "entry"} THEN 1 ELSE 0)

\* C30: at most one UpdateRecords call is inside the critical section, and
\* while one is, neither ServeDNS nor Snapshot is inside it.
C30_LockDiscipline ==
    /\ Cardinality(Writers) <= 1
    /\ Writers # {} => ReadersInside = 0
    /\ Writers = IF rwWriter = 0 THEN {} ELSE {rwWriter}
    /\ rwReaders = ReadersInside

\* C30 witness: ServeDNS and Snapshot are inside the critical section at the
\* same time while both UpdateRecords calls of the cycle wait for the lock.
C30_Witness ==
    /\ ReadersInside = 2
    /\ dnsPc = "answer"
    /\ snapPc = "entry"
    /\ \A d \in DomIdx : pdPc[d] = "urLock"
    /\ Cardinality(DomIdx) = 2
\* The configuration Parse left in dst violates one of the three rules.
ThreeRules(errs) ==
    {e \in errs : <<e[2], e[3]>> \in {<<"path", "path">>,
                                      <<"sample_min", "sample_bounds">>,
                                      <<"domains", "required">>}}

\* C23 as stated: when the configuration Parse has decoded and defaulted has
\* a path that does not start with '/', a sample_min above a positive
\* sample_max or no domain, Parse returns an error.
C23_ParseRejectsInvalid ==
    (parseOut # NoOutput /\ ThreeRules(Validate(parseOut.dst)) # {})
       => parseOut.err # "nil"

\* C24: Validate reports the bounds error of a domain exactly when its
\* sample_max is positive and its sample_min is greater, and with sample_max
\* 0 and sample_min >= 0 it reports no error for sample_min at all.
C24_SampleBounds ==
    validateOut # <<>> =>
       \A i \in DOMAIN parseOut.dst.Domains :
          LET sc == parseOut.dst.Domains[i] IN
          /\ <<i, "sample_min", "sample_bounds">> \in validateOut[1]
                <=> (sc.SamplesMaximum > 0 /\ sc.SamplesMinimum > sc.SamplesMaximum)
          /\ (sc.SamplesMaximum = 0 /\ sc.SamplesMinimum >= 0)
                => ~\E e \in validateOut[1] : e[1] = i /\ e[2] = "sample_min"

\* C24 witness: a domain with sample_min 9 and sample_max 0 has been
\* validated without an error for sample_min.
C24_Witness ==
    /\ validateOut # <<>>
    /\ \E i \in DOMAIN parseOut.dst.Domains :
          /\ parseOut.dst.Domains[i].SamplesMinimum = 9
          /\ parseOut.dst.Domains[i].SamplesMaximum = 0
          /\ ~\E e \in validateOut[1] : e[1] = i /\ e[2] = "sample_min"

\* C25 as stated: after Parse a domain without cidr has the CIDR list of the
\* args, a domain with a non-empty cidr list keeps it, and every field the
\* file sets has the value the file gives.
C25_FileWinsAndCIDRFallback ==
    (parseOut # NoOutput /\ parseOut.err = "nil") =>
       \A i \in DOMAIN parseOut.dst.Domains :
          LET fd == parseIn.file.Domains[i]
              v == parseOut.dst.Domains[i] IN
          /\ Decoded(fd.cidr, <<>>) = <<>> => v.CIDRs = parseIn.args.cidrs
          /\ Decoded(fd.cidr, <<>>) # <<>> => v.CIDRs = fd.cidr[1]
          /\ fd.path # <<>> => v.Path = fd.path[1]
          /\ fd.sample_min # <<>> => v.SamplesMinimum = fd.sample_min[1]
          /\ fd.sample_max # <<>> => v.SamplesMaximum = fd.sample_max[1]
\* Every worker of every domain, and those between a successful acquireToken
\* and the releaseToken that follows it.
AllWorkers == UNION {{<<d, w>> : w \in Workers(d)} : d \in DomIdx}
At(x) == wPc[x[1]][x[2]]
TokenHolders == {x \in AllWorkers : At(x) \in {"scan", "release"}}

\* C26: ExecuteIP starts only in the step that acquires the token, it returns
\* with the token still in the channel, the token leaves the channel (or
\* passes to a parked acquirer) before the outcome is looked at, and the
\* counter update and the admission change no token; the tokens in the
\* channel never outnumber the workers between acquire and release, so none
\* belongs to a worker that waits for or holds okMu.
C26_ProbeEventOrder ==
    /\ [][\A x \in AllWorkers :
            /\ (At(x)' = "scan" /\ At(x) # "scan")
                  => /\ At(x) \in {"acquire", "acquireParked"}
                     /\ workerTokens' >= 1
                     /\ \/ workerTokens' = workerTokens + 1
                        \/ \E y \in AllWorkers :
                              At(y) = "release" /\ At(y)' = "record"
                     /\ wSrc[x[1]][x[2]] \in probed'[x[1]]
            /\ (At(x) = "scan" /\ At(x)' # "scan")
                  => /\ At(x)' = "release"
                     /\ workerTokens' = workerTokens
            /\ (At(x) = "release" /\ At(x)' # "release")
                  => /\ At(x)' = "record"
                     /\ \/ workerTokens' = workerTokens - 1
                        \/ \E y \in AllWorkers :
                              At(y) = "acquireParked" /\ At(y)' = "scan"
                     /\ okIPs' = okIPs
            /\ (At(x) \in {"record", "lock", "crit"} /\ At(x)' # At(x))
                  => /\ workerTokens' = workerTokens
                     /\ At(x)' \in {"lock", "crit", "recv", "done"}]_vars
    /\ [](workerTokens <= Cardinality(TokenHolders))

\* C26 witness: a worker holds okMu, another one waits for it, and the
\* token channel is empty.
C26_Witness ==
    \E x \in AllWorkers, y \in AllWorkers :
        /\ x[1] = y[1]
        /\ At(x) = "crit"
        /\ At(y) = "lock"
        /\ okMu[x[1]] = x[2]
        /\ workerTokens = 0

\* C27: the tokens in the channel are as many as the workers between a
\* successful acquireToken and the releaseToken that follows it; a worker at
\* releaseToken finds a token to receive; and whatever the probe returned,
\* cancelled or not, the worker goes from ExecuteIP to releaseToken and gives
\* one token back.
C27_TokenAccounting ==
    /\ [](workerTokens = Cardinality(TokenHolders))
    /\ [](\A x \in AllWorkers : At(x) = "release" => workerTokens >= 1)
    /\ [][\A x \in AllWorkers :
            /\ (At(x) = "scan" /\ At(x)' # "scan") => At(x)' = "release"
            /\ (At(x) = "release" /\ At(x)' # "release")
                  => Cardinality(TokenHolders') = Cardinality(TokenHolders) - 1
                       \/ \E y \in AllWorkers :
                             At(y) = "acquireParked" /\ At(y)' = "scan"]_vars

\* C27 witness: a probe of a good address that the cancellation made fail
\* has given its token back, and the channel is empty.
C27_Witness ==
    \E x \in AllWorkers :
        /\ At(x) = "record"
        /\ ~wSuccess[x[1]][x[2]]
        /\ domainCtxErr[x[1]]
        /\ IPString(wIp[x[1]][x[2]]) \in cfg.Domains[x[1]].good
        /\ IPString(wIp[x[1]][x[2]]) \notin cfg.Domains[x[1]].flaky
        /\ workerTokens = 0
\* The producers of domain d have sent every candidate of their samples.
Drained(d) == \A p \in Producers(d) : prodIdx[d][p] > Len(Samples(d)[p])

\* C28: a collectIPs call that waits for its workers eventually returns, and
\* so does the recordUpdater call; when collectIPs has returned its producers
\* are drained or its limit is reached or the context of the group was
\* cancelled, every worker has returned, no producer is parked on the
\* channel, and the producers return as well.
C28_CycleTerminates ==
    /\ \A d \in {1, 2} :
          (d \in DomIdx /\ pdPc[d] = "wait")
             ~> (d \in DomIdx /\ pdPc[d] \in {"check", "done"})
    /\ (updPc \in {"running0", "running"}) ~> (updPc \in {"waitTick", "returned"})
    /\ \A d \in {1, 2} :
          (d \in DomIdx /\ pdPc[d] = "check")
             ~> (d \in DomIdx /\ \A p \in Producers(d) : prodPc[d][p] = "done")
    /\ [](\A d \in DomIdx :
            pdPc[d] = "check"
               => /\ Drained(d) \/ okIPs[d].len = Limit(d) \/ groupCtxErr
                  /\ workersDone(d)
                  /\ \A p \in Producers(d) : prodPc[d][p] # "sendParked")

\* C28 witness: without any cancellation from outside, the second cycle has
\* ended for both domains after a worker of each had to wait for the token
\* of the other; the first reached its limit with a candidate unsent, the
\* second drained its producer below its limit.
C28_Witness ==
    /\ ~ctxErr
    /\ cycle = 2
    /\ updPc = "waitTick"
    /\ \A d \in DomIdx : pdPc[d] = "done"
    /\ okIPs[1].len = Limit(1) /\ ~Drained(1)
    /\ okIPs[2].len < Limit(2) /\ Drained(2)
    /\ Cardinality(AllWorkers) > TokenCap
\* C29: the channel of a cycle goes from open to closed only when every
\* producer of the cycle has returned, and it stays closed until the next
\* cycle makes a new one; while the producers are done and the channel is
\* open the supervisor's close can run; on a closed channel no producer is
\* sending and no candidate is handed over; and a worker that enters or sits
\* in recvIP when the channel is closed returns, starting no probe.
C29_CloseAfterProducers ==
    /\ [][\A d \in DomIdx :
            /\ (~ipChClosed[d] /\ ipChClosed'[d])
                  => \A p \in Producers(d) : prodPc[d][p] = "done"
            /\ (ipChClosed[d] /\ ~ipChClosed'[d])
                  => pdPc[d] = "start" /\ pdPc'[d] = "wait"
            /\ ipChClosed[d] => /\ prodIdx'[d] = prodIdx[d] \/ pdPc[d] = "start"
            /\ \A w \in Workers(d) :
                  (/\ wPc[d][w] \in {"recv", "recvParked"}
                   /\ ipChClosed'[d]
                   /\ wPc'[d][w] # wPc[d][w])
                     => /\ wPc'[d][w] = "done"
                        /\ probed'[d] = probed[d]]_vars
    /\ [](\A d \in DomIdx :
            /\ ipChClosed[d] => \A p \in Producers(d) : prodPc[d][p] = "done"
            /\ (/\ Scanning(d)
                /\ ~ipChClosed[d]
                /\ \A p \in Producers(d) : prodPc[d][p] = "done")
                  => ENABLED closeIpCh(d))

\* C29 witness: the producers are drained, the channel was closed without any
\* cancellation, and every worker has returned below the limit.
C29_Witness ==
    \E d \in DomIdx :
        /\ pdPc[d] = "wait"
        /\ ipChClosed[d]
        /\ ~domainCtxErr[d]
        /\ Drained(d)
        /\ workersDone(d)
        /\ okIPs[d].len < Limit(d)
        /\ okIPs[d].len > 0


\* The reply a request gets from its first question and the store alone: the
\* first question echoed, and one A record per address of the entry of its
\* name when it is of type A and the name has an entry.
FirstQuestionReply ==
    IF Len(dnsReq) = 0
      THEN [Rcode |-> "NOERROR", Question |-> <<>>, Answer |-> <<>>]
      ELSE [Rcode |-> "NOERROR",
            Question |-> <<dnsReq[1]>>,
            Answer |->
              IF dnsReq[1].Qtype = "A" /\ dnsReq[1].Name \in DOMAIN memory
                THEN [i \in 1..memory[dnsReq[1].Name].len |->
                        [Name |-> dnsReq[1].Name, Rrtype |-> "A",
                         Class |-> "IN", Ttl |-> HandlerTtl,
                         A |-> Slice(memory[dnsReq[1].Name])[i]]]
                ELSE <<>>]

\* C31: a ServeDNS invocation calls WriteMsg at most once, it returns with
\* exactly one call made whether the call failed or not, none of its steps
\* changes the store (lists, their contents, timestamps), and the reply is
\* the one its first question and the store determine.
C31_OneReplyStoreUntouched ==
    /\ [](Len(dnsWrites) <= 1)
    /\ [](Replied <=> Len(dnsWrites) = 1)
    /\ [][(dnsPc # "idle" /\ dnsPc' = "idle") => Len(dnsWrites) = 1]_vars
    /\ [][(dnsPc' # dnsPc \/ dnsWrites' # dnsWrites)
            => /\ memory' = memory
               /\ updatedAt' = updatedAt
               /\ heap' = heap
               /\ published' = published]_vars
    /\ [](Replied => dnsMsg = FirstQuestionReply)

\* C31 witness: the write of a hit with an answer failed, for a request that
\* carries a second question.
C31_Witness ==
    /\ dnsPc = "writtenLocked"
    /\ dnsWrites = <<"error">>
    /\ Len(dnsReq) = 2
    /\ dnsMsg.Answer # <<>>

\* Worker w of domain d holds the result of a failed probe and is about to
\* call recordScanResult.
FailedProbe(d, w) ==
    /\ d \in DomIdx
    /\ w \in Workers(d)
    /\ wPc[d][w] = "record"
    /\ ~wSuccess[d][w]

\* C32: the step a worker takes with the result of a failed probe counts the
\* candidate as rejected, leaves the survivor list, the dedup map and the
\* contexts alone and takes the worker back to recvIP; no error is recorded
\* for the cycle, and the scheduler returns one only when the context of
\* Serve was cancelled; and unless that context is cancelled the cycle of
\* the domain goes on to write the store.
C32_FailedProbeIsNoError ==
    /\ [][\A d \in DomIdx : \A w \in Workers(d) :
            (FailedProbe(d, w) /\ wPc'[d][w] # wPc[d][w])
               => /\ wPc'[d][w] = "recv"
                  /\ scanRejected'[d] = scanRejected[d] \cup {wSrc[d][w]}
                  /\ okIPs' = okIPs
                  /\ seen' = seen
                  /\ heap' = heap
                  /\ domainCtxErr' = domainCtxErr
                  /\ groupCtxErr' = groupCtxErr
                  /\ groupErr' = groupErr]_vars
    /\ [](groupErr = "none" /\ (updErr # "none" => ctxErr))
    /\ \A w \in {1, 2} :
          FailedProbe(1, w) ~> (ctxErr \/ pdPc[1] = "urUnlock")

\* C32 witness: a cycle in which every probe failed has written the store,
\* nothing having been cancelled from outside.
C32_Witness ==
    /\ ~ctxErr
    /\ pdPc[1] = "urUnlock"
    /\ scanRejected[1] = AllCandidates(1)
    /\ okIPs[1].len = 0
    /\ groupErr = "none"

\* C33 as stated: the tick that follows a cycle started at time t by the
\* tick emitted at t is emitted at t + update_interval when that cycle has
\* returned by then, however long the cycle ran.  (The step that emits a tick is taken
\* from a state in which the cycle has returned; when the time of that state
\* is at most t + update_interval, the cycle returned by then.)
C33_PeriodFromTickEmission ==
    [][(/\ timerC = 0 /\ timerC' = 1
        /\ cycle >= 2
        /\ updPc = "waitTick"
        /\ cycleAt = tickAt
        /\ now <= tickAt + cfg.UpdateInterval)
          => tickAt' = tickAt + cfg.UpdateInterval]_vars

\* The addresses among the candidates of domain d on which the probe succeeds.
GoodCandidates(d) ==
    {IPString(Samples(d)[c[1]][c[2]]) : c \in AllCandidates(d)}
       \cap cfg.Domains[d].good

\* The step reaches the result limit of domain d.
ReachesLimit(d) == okIPs[d].len < Limit(d) /\ okIPs'[d].len = Limit(d)

\* The step leaves the goroutines, the contexts and the list of domain e, and
\* the context of the group, as they are.
Undisturbed(e) ==
    /\ domainCtxErr'[e] = domainCtxErr[e]
    /\ wPc'[e] = wPc[e]
    /\ prodPc'[e] = prodPc[e]
    /\ pdPc'[e] = pdPc[e]
    /\ okIPs'[e] = okIPs[e]
    /\ groupCtxErr' = groupCtxErr
    /\ ctxErr' = ctxErr

\* C34: the step that reaches the limit of one domain, and the step in which
\* the cycle of a domain ends without error, leave every other domain and the
\* context of the group undisturbed; a domain whose collectIPs returns while
\* the context of the group is live has collected every address it can, up to
\* its limit, whatever the other domains did; and a domain that waits for its
\* workers while another has reached its limit goes on to write the store
\* unless the context of Serve is cancelled.
C34_LimitCancelsOwnDomainOnly ==
    /\ [][\A d \in DomIdx : \A e \in DomIdx \ {d} :
            (ReachesLimit(d) \/ (pdPc[d] # "done" /\ pdPc'[d] = "done"
                                   /\ groupErr' = "none"))
               => Undisturbed(e)]_vars
    /\ [](\A e \in DomIdx :
            (pdPc[e] = "check" /\ ~groupCtxErr)
               => \/ okIPs[e].len = Limit(e)
                  \/ okIPs[e].len = Cardinality(GoodCandidates(e)))
    /\ \A e \in {1, 2} :
          (/\ e \in DomIdx
           /\ pdPc[e] = "wait"
           /\ \E d \in DomIdx \ {e} : okIPs[d].len = Limit(d))
             ~> (ctxErr \/ pdPc[e] = "urUnlock")

\* C34 witness: the first domain has reached its limit with a candidate left
\* unsent and its cycle has ended, while the second, its context live, has a
\* probe in flight.
C34_Witness ==
    /\ pdPc[1] = "done"
    /\ okIPs[1].len = Limit(1)
    /\ ~Drained(1)
    /\ pdPc[2] = "wait"
    /\ ~domainCtxErr[2]
    /\ ~groupCtxErr
    /\ \E w \in Workers(2) : wPc[2][w] = "scan"

\* C35: a processDomain whose collectIPs has returned goes on to UpdateRecords
\* with the list collectIPs returned, empty or not, unless the context of the
\* group is cancelled; when the store write of a cycle in which no probe
\* succeeded is complete, the entry of the name exists and is empty; and an A
\* lookup of a name whose last publication is empty and complete is a hit
\* with zero answers.
C35_EmptyListReplaces ==
    /\ [][\A d \in DomIdx :
            (pdPc[d] = "check" /\ ~groupCtxErr /\ pdPc'[d] # "check")
               => /\ pdPc'[d] = "urLock"
                  /\ published'[Key(d)].cur = Slice(okIPs[d])]_vars
    /\ [](\A d \in DomIdx :
            (pdPc[d] = "urUnlock" /\ succeeded[d] = {})
               => /\ Key(d) \in DOMAIN memory
                  /\ memory[Key(d)].len = 0
                  /\ published[Key(d)].cur = <<>>)
    /\ [](\A d \in DomIdx :
            (/\ dnsPc = "writtenLocked"
             /\ dnsReq[1].Name = Key(d)
             /\ Key(d) \in DOMAIN published
             /\ published[Key(d)].cur = <<>>
             /\ ~InUpdateRecords(d))
               => /\ dnsRes # NoSlice
                  /\ dnsRes.len = 0
                  /\ dnsMsg.Rcode = "NOERROR"
                  /\ dnsMsg.Answer = <<>>)

\* C35 witness: the first cycle published an address, the second, in which
\* the probe failed, published the empty list, and an A lookup of the name
\* made after that was a hit with zero answers.
C35_Witness ==
    /\ dnsPc = "writtenLocked"
    /\ dnsReq[1].Name = Key(1)
    /\ cycle = 2
    /\ pdPc[1] = "done"
    /\ ~ctxErr
    /\ published[Key(1)].prev # <<>>
    /\ published[Key(1)].cur = <<>>
    /\ dnsRes # NoSlice
    /\ dnsMsg.Answer = <<>>

\* The smaller of two numbers.
Min(a, b) == IF a < b THEN a ELSE b

\* The runWorker goroutines of domain d whose ExecuteIP is in progress.
InFlightOf(d) == {w \in DOMAIN wPc[d] : wPc[d][w] = "scan"}

\* C36: a collectIPs call has one runWorker goroutine per CIDR of its domain,
\* and the number of probes of a domain in progress is at most the number of
\* its CIDRs and at most the normalised max_workers.
C36_WorkersPerCIDR ==
    \A d \in DomIdx :
       /\ Scanning(d) => DOMAIN wPc[d] = 1..Len(cfg.Domains[d].samples)
       /\ Cardinality(InFlightOf(d))
             <= Min(Len(cfg.Domains[d].samples),
                    normalizeMaxWorkers(cfg.MaxWorkers))

\* C36 witness: the only worker of a domain with one CIDR has a probe in
\* progress, the producer is parked with the next candidate, and two tokens of
\* the budget are free.
C36_Witness ==
    /\ Len(cfg.Domains[1].samples) = 1
    /\ wPc[1][1] = "scan"
    /\ prodPc[1][1] = "sendParked"
    /\ workerTokens = 1
    /\ TokenCap = 3
====
